-------------------------- MODULE Memorise_proofs --------------------------
(***************************************************************************)
(* Proofs about Memorise, for any verses, passages, scopes and bounds: the *)
(* type invariant; that verses are begun in order; that no step of a       *)
(* verse's script is skipped, as long as no reshaping has been cut short;  *)
(* that bonuses are paid once, a passage's as long as no answer has been;  *)
(* and that the answer to the card of the moment counts.                   *)
(***************************************************************************)
EXTENDS Memorise, MemorySteps_proofs, FiniteSetTheorems, WellFoundedInduction

\* A nonempty set of numbers has a least one.
LEMMA LeastExists ==
  ASSUME NEW S \in SUBSET Nat, S # {}
  PROVE  \E x \in S : \A y \in S : x <= y
<1>1. \E x \in S : \A y \in S : ~(<<y, x>> \in OpToRel(<, Nat))
  BY NatLessThanWellFounded, WFMin
<1>2. PICK x \in S : \A y \in S : ~(<<y, x>> \in OpToRel(<, Nat))
  BY <1>1
<1>3. \A y \in S : ~(y < x)
  BY <1>2 DEF OpToRel
<1> QED BY <1>3

\* So Min returns it.
LEMMA MinType ==
  ASSUME NEW S \in SUBSET Nat, S # {}
  PROVE  Min(S) \in S /\ \A y \in S : Min(S) <= y
BY LeastExists DEF Min

\* And Max the greatest, if there is a bound.
LEMMA MaxType ==
  ASSUME NEW S \in SUBSET Nat, S # {}, NEW n \in Nat, \A x \in S : x <= n
  PROVE  Max(S) \in S /\ \A y \in S : y <= Max(S)
<1> DEFINE T == {n - x : x \in S}
<1>1. T \in SUBSET Nat /\ T # {}
  <2>1. \A x \in S : n - x \in Nat
    OBVIOUS
  <2> QED BY <2>1
<1>2. PICK t \in T : \A u \in T : t <= u
  BY <1>1, LeastExists
<1>3. PICK x \in S : t = n - x
  BY <1>2
<1>4. \A y \in S : x >= y
  <2> TAKE y \in S
  <2>1. n - y \in T
    OBVIOUS
  <2>2. n - x <= n - y
    BY <1>2, <1>3, <2>1
  <2> QED BY <2>2
<1> QED BY <1>4 DEF Max

-----------------------------------------------------------------------------
(* Plans *)

\* What the script of a verse is; StepCount is never more than 252.
LEMMA StepsAre ==
  ASSUME TypeOK, NEW id, NEW v \in Verses
  PROVE  /\ Lines(v) \in 1..MaxLines /\ Lines(v) \in Nat \ {0}
         /\ Opens(id, v) \in BOOLEAN
         /\ Steps(id, v) = VerseSteps(Lines(v), Opens(id, v))
         /\ Len(Steps(id, v)) = StepCount(Lines(v), Opens(id, v))
         /\ Len(Steps(id, v)) \in Nat \ {0} /\ Len(Steps(id, v)) <= 252
         /\ Len(Steps(id, v)) <= LineStepCount(Lines(v)) + 1
<1>1. layout[v].lines \in 0..MaxLines /\ layout[v].opens \in BOOLEAN
  BY DEF TypeOK, Shapes
<1>2. Lines(v) \in 1..MaxLines /\ Lines(v) \in Nat \ {0} /\ Lines(v) <= 84
  BY <1>1, MemoriseAssumption DEF Lines
<1>3. Opens(id, v) \in BOOLEAN
  BY <1>1 DEF Opens
<1>4. Steps(id, v) = VerseSteps(Lines(v), Opens(id, v))
  BY <1>2, <1>3 DEF Steps, Script
<1>5. LineStepCount(Lines(v)) + 1 <= 252
  BY <1>2 DEF LineStepCount
<1> QED BY <1>2, <1>3, <1>4, <1>5, ScriptLength

\* A step of the script, by its number, and how it is typed.
LEMMA StepIs ==
  ASSUME TypeOK, NEW id, NEW v \in Verses, NEW q \in 1..Len(Steps(id, v))
  PROVE  /\ Steps(id, v)[q].kind \in StepKinds
         /\ Steps(id, v)[q] \in [kind : CardKinds, from : Nat, to : Nat]
         /\ q <= LineStepCount(Lines(v)) => Steps(id, v)[q] = LineStep(q - 1)
<1>1. q - 1 \in 0..(StepCount(Lines(v), Opens(id, v)) - 1) /\ (q - 1) + 1 = q
  BY StepsAre
<1>2. /\ Steps(id, v)[q].kind \in StepKinds
      /\ Steps(id, v)[q] \in [kind : StepKinds, from : Nat, to : Nat]
  BY <1>1, StepsAre, ScriptKinds
<1>3. q <= LineStepCount(Lines(v)) => Steps(id, v)[q] = LineStep(q - 1)
  BY StepsAre DEF VerseSteps
<1> QED BY <1>2, <1>3 DEF StepKinds, CardKinds

\* A verse is always at a step of its script.
LEMMA CurrentPlace ==
  ASSUME TypeOK, NEW id, NEW v \in Verses
  PROVE  /\ CurrentStep(id, v) \in 0..(Len(Steps(id, v)) - 1)
         /\ CurrentStep(id, v) \in 0..Relearn
         /\ rows[v] # NoRow /\ rows[v].stage # Relearn => CurrentStep(id, v) <= rows[v].stage
<1>1. CASE rows[v] = NoRow
  BY <1>1, StepsAre DEF CurrentStep, Relearn
<1>2. CASE rows[v] # NoRow
  <2>1. rows[v].stage \in Nat
    BY <1>2, MemoriseAssumption DEF TypeOK, VerseRows, Relearn, LineStepCount
  <2>2. CurrentStep(id, v) \in 0..(Len(Steps(id, v)) - 1)
    BY <1>2, <2>1, StepsAre, ResolvePlace DEF CurrentStep
  <2>3. rows[v].stage # Relearn => CurrentStep(id, v) <= rows[v].stage
    BY <1>2, <2>1, StepsAre DEF CurrentStep, ResolveStep
  <2>4. CurrentStep(id, v) \in 0..Relearn
    <3>1. PICK n \in Nat : n <= 252 /\ CurrentStep(id, v) \in 0..(n - 1)
      BY <2>2, StepsAre
    <3> QED BY <3>1 DEF Relearn
  <2> QED BY <2>2, <2>3, <2>4
<1> QED BY <1>1, <1>2

\* The passage an answer is for is one in scope that holds the verse.
LEMMA PassageIs ==
  ASSUME NEW scope, NEW v, \E id \in Scope(scope) : v \in VersesOf(id), scope \in Ids \cup {All}
  PROVE  /\ PassageFor(scope, v) \in Ids /\ Live(PassageFor(scope, v))
         /\ v \in VersesOf(PassageFor(scope, v)) /\ v \in Verses
<1> DEFINE S == {id \in Scope(scope) : v \in VersesOf(id)}
<1>1. Scope(scope) \subseteq Ids /\ \A id \in Scope(scope) : Live(id)
  BY MemoriseAssumption DEF Scope
<1>2. S \in SUBSET Nat /\ S # {}
  BY <1>1, MemoriseAssumption
<1>3. Min(S) \in S
  BY <1>2, MinType
<1> HIDE DEF S
<1>4. PassageFor(scope, v) \in S
  BY <1>3 DEF PassageFor, S
<1> QED BY <1>1, <1>4 DEF S, VersesOf

\* The verse that opens the section of a verse opens its own.
LEMMA SectionOf ==
  ASSUME TypeOK, NEW id \in Ids, Live(id), NEW v \in VersesOf(id)
  PROVE  /\ SectionStart(id, v) \in VersesOf(id) /\ SectionStart(id, v) <= v
         /\ SectionStart(id, SectionStart(id, v)) = SectionStart(id, v)
<1> DEFINE S(w) == {u \in VersesOf(id) : u <= w /\ Opens(id, u)}
<1>1. passages[id].first \in VersesOf(id) /\ Opens(id, passages[id].first) /\ VersesOf(id) \subseteq Nat
  <2>1. passages[id] \in [first : Verses, last : Verses, live : BOOLEAN]
    BY DEF TypeOK, Live
  <2>2. passages[id].first \in Nat /\ passages[id].last \in Nat /\ passages[id].first \in Verses
    BY <2>1, MemoriseAssumption
  <2>3. v \in Nat /\ VersesOf(id) \subseteq Nat
    BY MemoriseAssumption DEF VersesOf
  <2>4. passages[id].first <= passages[id].last
    BY <2>2, <2>3 DEF VersesOf
  <2> QED BY <2>2, <2>3, <2>4 DEF VersesOf, Opens
<1>2. \A w \in VersesOf(id) : S(w) \in SUBSET Nat /\ S(w) # {} /\ w \in Nat /\ \A u \in S(w) : u <= w
  BY <1>1 DEF VersesOf
<1>3. \A w \in VersesOf(id) : Max(S(w)) \in S(w) /\ \A u \in S(w) : u <= Max(S(w))
  BY <1>2, MaxType
<1>4. \A w \in VersesOf(id) : SectionStart(id, w) = Max(S(w))
  BY DEF SectionStart
<1> DEFINE s == Max(S(v))
<1>5. s \in VersesOf(id) /\ s <= v /\ s \in S(s)
  BY <1>1, <1>3
<1>6. Max(S(s)) = s
  BY <1>1, <1>3, <1>5
<1> HIDE DEF S, s
<1> QED BY <1>4, <1>5, <1>6 DEF s

-----------------------------------------------------------------------------
(* Cards *)

\* A recital of some verses is a card.
LEMMA RecitalType ==
  ASSUME NEW scope \in Ids \cup {All}, NEW purpose \in CardKinds,
         NEW vs \in SUBSET Verses, vs # {}
  PROVE  RecitalCard(scope, purpose, vs) \in Cards
<1>1. Min(vs) \in vs
  BY MinType, MemoriseAssumption
<1> QED BY <1>1 DEF RecitalCard, Cards, Relearn

\* What learning shows next: the step that a verse is at, the verse being the
\* first of a passage in scope that is not learnt.
IsLesson(scope, c) ==
  \E id \in Scope(scope), v \in Verses :
    /\ c = StepCard(scope, id, v, CurrentStep(id, v))
    /\ v \in Unlearnt(id) /\ \A w \in Unlearnt(id) : v <= w

\* The next card is a recital, or a lesson.
LEMMA NextItemParts ==
  ASSUME TypeOK, NEW scope \in Ids \cup {All}, NEW room, NEW c \in NextItem(scope, room)
  PROVE  \/ \E purpose \in {"review", "run"}, vs \in SUBSET Verses :
              vs # {} /\ c = RecitalCard(scope, purpose, vs)
         \/ IsLesson(scope, c)
<1> DEFINE reviews == {id \in Scope(scope) : DueSections(id) # {}}
           runs    == {id \in Scope(scope) : DueRun(id)}
           lessons == {id \in Scope(scope) : Lesson(id) # {}}
<1>0. \A id \in Scope(scope) : id \in Ids /\ Live(id)
  BY MemoriseAssumption DEF Scope
<1>1. CASE reviews # {}
  <2>1. PICK id \in First(reviews) : \E v \in First(DueSections(id)) :
          c = RecitalCard(scope, "review", Section(id, v) \cap Known(id, rows))
    BY <1>1 DEF NextItem
  <2>2. PICK v \in DueSections(id) :
          c = RecitalCard(scope, "review", Section(id, v) \cap Known(id, rows))
    BY <2>1 DEF First
  <2>3. id \in Ids /\ Live(id)
    BY <1>0 DEF First
  <2>4. PICK w \in VersesOf(id) : Due(rows[w]) /\ v = SectionStart(id, w)
    BY <2>2 DEF DueSections
  <2>5. SectionStart(id, v) = SectionStart(id, w)
    BY <2>3, <2>4, SectionOf
  <2>6. w \in Section(id, v) \cap Known(id, rows)
    BY <2>4, <2>5 DEF Section, Known, Due
  <2> QED BY <2>2, <2>6 DEF Known, VersesOf
<1>2. CASE reviews = {} /\ runs # {}
  <2>1. PICK id \in runs : c = RecitalCard(scope, "run", Known(id, rows))
    BY <1>2 DEF NextItem, First
  <2>2. Known(id, rows) # {}
    <3>1. SUFFICES ASSUME Known(id, rows) = {} PROVE FALSE
      OBVIOUS
    <3>2. {SectionStart(id, v) : v \in Known(id, rows)} = {}
      BY <3>1
    <3> QED BY <2>1, <3>2, FS_EmptySet DEF DueRun
  <2> QED BY <2>1, <2>2 DEF Known, VersesOf
<1>3. CASE reviews = {} /\ runs = {}
  <2>1. PICK id \in First(lessons) : \E v \in Lesson(id) : c = StepCard(scope, id, v, CurrentStep(id, v))
    BY <1>3 DEF NextItem
  <2>2. id \in Scope(scope)
    BY DEF First
  <2> QED BY <2>1, <2>2 DEF IsLesson, Lesson, First, Unlearnt, VersesOf
<1> QED BY <1>1, <1>2, <1>3

\* What a lesson is a card of.
LEMMA LessonIs ==
  ASSUME TypeOK, NEW scope \in Ids \cup {All}, NEW id \in Ids, NEW v \in Verses, NEW c,
         c = StepCard(scope, id, v, CurrentStep(id, v))
  PROVE  /\ c \in Cards /\ IsLearning(c)
         /\ c.scope = scope /\ c.verse = v /\ c.step = CurrentStep(id, v)
<1>1. CurrentStep(id, v) + 1 \in 1..Len(Steps(id, v))
  BY CurrentPlace, StepsAre
<1>2. Steps(id, v)[CurrentStep(id, v) + 1].kind \in StepKinds
  BY <1>1, StepIs
<1>3. CurrentStep(id, v) \in 0..Relearn
  BY CurrentPlace
<1>4. \A vs : {w \in VersesOf(id) : vs <= w /\ w <= v} \in SUBSET Verses
  BY DEF VersesOf
<1> QED BY <1>2, <1>3, <1>4 DEF StepCard, Cards, CardKinds, StepKinds, IsLearning

\* The next card is a card.
LEMMA NextItemType ==
  ASSUME TypeOK, NEW scope \in Ids \cup {All}, NEW room, NEW c \in NextItem(scope, room)
  PROVE  c \in Cards
<1>1. ASSUME NEW purpose \in {"review", "run"}, NEW vs \in SUBSET Verses,
             vs # {}, c = RecitalCard(scope, purpose, vs)
      PROVE  c \in Cards
  BY <1>1, RecitalType DEF CardKinds
<1>2. CASE IsLesson(scope, c)
  BY <1>2, LessonIs, MemoriseAssumption DEF IsLesson, Scope
<1> QED BY <1>1, <1>2, NextItemParts

\* The answer to the card of the moment counts, if the passages that hold the
\* verse agree on its script.
LEMMA AnswerCounts == TypeOK => NextCardCounts
<1> SUFFICES ASSUME TypeOK, NEW scope \in Scopes, NEW c \in NextItem(scope, TRUE),
                    Alike(c.verse), IsLearning(c)
             PROVE  Accepts(c)
  BY DEF NextCardCounts, Accepts
<1>0. scope \in Ids \cup {All}
  BY MemoriseAssumption
<1>1. IsLesson(scope, c)
  <2>1. ASSUME NEW purpose \in {"review", "run"}, NEW vs, c = RecitalCard(scope, purpose, vs)
        PROVE  FALSE
    BY <2>1 DEF RecitalCard, IsLearning
  <2> QED BY <1>0, <2>1, NextItemParts
<1>2. PICK id \in Scope(scope), v \in Verses :
        /\ c = StepCard(scope, id, v, CurrentStep(id, v))
        /\ v \in Unlearnt(id)
  BY <1>1 DEF IsLesson
<1>3. id \in Ids /\ Live(id)
  BY MemoriseAssumption DEF Scope
<1>4. c.scope = scope /\ c.verse = v /\ c.step = CurrentStep(id, v)
  BY <1>0, <1>2, <1>3, LessonIs
<1>5. v \in VersesOf(id) /\ ~Learnt(rows[v])
  BY <1>2 DEF Unlearnt, Known
<1> DEFINE other == PassageFor(scope, v)
<1>6. other \in Ids /\ Live(other) /\ v \in VersesOf(other)
  BY <1>0, <1>5, PassageIs
<1> HIDE DEF other
<1>7. Opens(other, v) = Opens(id, v)
  BY <1>3, <1>4, <1>5, <1>6 DEF Alike
<1>8. CurrentStep(other, v) = CurrentStep(id, v)
  BY <1>7 DEF CurrentStep, Steps
<1> QED BY <1>4, <1>5, <1>8 DEF Accepts, other

-----------------------------------------------------------------------------
(* Answers *)

\* An answer that is taken to a card of learning is for a verse of a live
\* passage, and for the step that the verse is at in it.
LEMMA Taken ==
  ASSUME TypeOK, NEW c \in Cards, IsLearning(c), Accepts(c)
  PROVE  \E id \in Ids :
           /\ id = PassageFor(c.scope, c.verse)
           /\ Live(id) /\ c.verse \in VersesOf(id)
           /\ StepsOf(c) = Steps(id, c.verse)
           /\ c.step = CurrentStep(id, c.verse)
           /\ c.step \in Nat /\ c.step <= Len(StepsOf(c)) - 1
           /\ ~Learnt(rows[c.verse])
<1> DEFINE id == PassageFor(c.scope, c.verse)
<1>1. c.scope \in Ids \cup {All} /\ c.verse \in Verses
  BY DEF Cards
<1>2. id \in Ids /\ Live(id) /\ c.verse \in VersesOf(id)
  BY <1>1, PassageIs DEF Accepts
<1> HIDE DEF id
<1>3. CurrentStep(id, c.verse) \in 0..(Len(Steps(id, c.verse)) - 1)
  BY <1>1, CurrentPlace
<1>4. c.step = CurrentStep(id, c.verse) /\ ~Learnt(rows[c.verse])
  BY DEF Accepts, id
<1>5. StepsOf(c) = Steps(id, c.verse)
  BY DEF StepsOf, id
<1>6. Len(Steps(id, c.verse)) \in Nat
  BY <1>1, StepsAre
<1> QED BY <1>2, <1>3, <1>4, <1>5, <1>6 DEF id

\* The row that the verse of the card moves on to.
LEMMA TargetType ==
  ASSUME TypeOK, NEW c \in Cards, IsLearning(c), Accepts(c), NEW g
  PROVE  Target(c, g) \in VerseRows(MaxLines)
<1> DEFINE row == IF rows[c.verse] = NoRow THEN NewRow ELSE rows[c.verse]
<1>1. PICK id \in Ids : /\ StepsOf(c) = Steps(id, c.verse)
                         /\ c.step \in Nat /\ c.step <= Len(StepsOf(c)) - 1
  BY Taken
<1>2. c.verse \in Verses /\ MaxLines \in Nat \ {0}
  BY MemoriseAssumption DEF Cards
<1>3. row \in VerseRows(MaxLines)
  BY <1>2, RowTypes DEF TypeOK
<1>4. /\ Lines(c.verse) \in 1..MaxLines /\ Opens(id, c.verse) \in BOOLEAN
      /\ StepsOf(c) = VerseSteps(Lines(c.verse), Opens(id, c.verse))
      /\ Len(StepsOf(c)) = StepCount(Lines(c.verse), Opens(id, c.verse))
      /\ Len(StepsOf(c)) \in Nat
  BY <1>1, <1>2, StepsAre
<1>5. c.step \in 0..(StepCount(Lines(c.verse), Opens(id, c.verse)) - 1)
  BY <1>1, <1>4
<1> HIDE DEF row
<1>6. Moved(row, NextStep(c.purpose, g[c.verse], c.step),
            VerseSteps(Lines(c.verse), Opens(id, c.verse))) \in VerseRows(MaxLines)
  BY <1>2, <1>3, <1>4, <1>5, MovedType
<1> QED BY <1>4, <1>6 DEF Target, row

\* The rows after an answer, all of them written or some.
LEMMA RowsAfterType ==
  ASSUME TypeOK, NEW c \in Cards, Accepts(c), NEW g \in GradesOf(c), NEW done \in SUBSET c.covers
  PROVE  RowsAfter(c, g, done) \in [Verses -> VerseRows(MaxLines) \cup {NoRow}]
<1> SUFFICES ASSUME NEW v \in Verses
             PROVE  RowsAfter(c, g, done)[v] \in VerseRows(MaxLines) \cup {NoRow}
  BY DEF RowsAfter
<1>1. CASE IsLearning(c) /\ v = c.verse
  BY <1>1, TargetType DEF RowsAfter
<1>2. CASE ~(IsLearning(c) /\ v = c.verse) /\ v \in done /\ Learnt(rows[v])
  <2>1. rows[v] \in VerseRows(MaxLines)
    BY <1>2 DEF TypeOK, Learnt
  <2>2. g[v] \in GradeKinds
    BY <1>2, MemoriseAssumption DEF GradesOf
  <2>3. Reviewed(rows[v], g[v]) \in VerseRows(MaxLines)
    BY <2>1, <2>2, RowTypes, MemoriseAssumption
  <2> QED BY <1>2, <2>3 DEF RowsAfter
<1>3. CASE ~(IsLearning(c) /\ v = c.verse) /\ ~(v \in done /\ Learnt(rows[v]))
  BY <1>3 DEF RowsAfter, TypeOK
<1> QED BY <1>1, <1>2, <1>3

RunType == [Ids -> {"none", "due", "later"}]
LogType == [paid : [Ids -> Nat], complete : SUBSET Ids,
            firsts : [Verses -> Nat], graduated : SUBSET Verses]
EarnedType == [Verses -> SUBSET [kind : CardKinds, from : Nat, to : Nat]]

\* A passage that an answer completes is one that the log does not know of.
LEMMA NewlyCompleteIs ==
  ASSUME NEW c, NEW g, NEW table
  PROVE  /\ NewlyComplete(c, g, table) \subseteq Ids
         /\ NewlyComplete(c, g, table) \cap log.complete = {}
BY DEF NewlyComplete, CompletedIds

\* The log and the runs after an answer.
LEMMA LogAfterType ==
  ASSUME TypeOK, NEW c \in Cards, NEW g, NEW table
  PROVE  /\ LogFirst(c, g, table) \in LogType
         /\ LogAfter(c, g, table) \in LogType
         /\ RunAfter(c, g, table) \in RunType
<1> DEFINE new == NewlyComplete(c, g, table)
<1>1. new \subseteq Ids
  BY NewlyCompleteIs
<1>2. new # {} => Min(new) \in Ids
  BY <1>1, MinType, MemoriseAssumption
<1>3. c.verse \in Verses
  BY DEF Cards
<1>4. log \in LogType
  BY DEF TypeOK, LogType
<1> HIDE DEF new
<1>5. LogFirst(c, g, table) \in LogType
  <2>1. [id \in Ids |-> log.paid[id] + IF id \in new THEN 1 ELSE 0] \in [Ids -> Nat]
    BY <1>4 DEF LogType
  <2>2. [v \in Verses |-> log.firsts[v] +
           IF v = c.verse /\ Graduates(c, g) /\ v \notin log.graduated THEN 1 ELSE 0] \in [Verses -> Nat]
    BY <1>4 DEF LogType
  <2>3. log.complete \cup (IF new = {} THEN {} ELSE {Min(new)}) \in SUBSET Ids
    BY <1>2, <1>4 DEF LogType
  <2>4. log.graduated \cup (IF Graduates(c, g) THEN {c.verse} ELSE {}) \in SUBSET Verses
    BY <1>3, <1>4 DEF LogType
  <2> QED BY <2>1, <2>2, <2>3, <2>4 DEF LogFirst, LogType, new
<1>6. LogAfter(c, g, table) \in LogType
  BY <1>1, <1>5 DEF LogAfter, LogType, new
<1>7. RunAfter(c, g, table) \in RunType
  BY DEF RunAfter, TypeOK, RunType
<1> QED BY <1>5, <1>6, <1>7

\* The steps that count as earned before an answer, and the one it earns.
LEMMA EarnedAfterType ==
  ASSUME TypeOK, NEW c \in Cards, Accepts(c), NEW g
  PROVE  EarnedAfter(c, g) \in EarnedType
<1>1. CASE ~IsLearning(c)
  BY <1>1 DEF EarnedAfter, TypeOK, EarnedType
<1>2. CASE IsLearning(c)
  <2>1. PICK id \in Ids : /\ StepsOf(c) = Steps(id, c.verse)
                           /\ c.step \in Nat /\ c.step <= Len(StepsOf(c)) - 1
    BY <1>2, Taken
  <2>2. c.verse \in Verses
    BY DEF Cards
  <2>3. PICK n \in Nat : n = Len(StepsOf(c))
    BY <2>1, <2>2, StepsAre
  <2>4. \A q \in 1..n : StepsOf(c)[q] \in [kind : CardKinds, from : Nat, to : Nat]
    BY <2>1, <2>2, <2>3, StepIs
  <2>5. c.step + 1 \in 1..n /\ \A q \in 1..c.step : q \in 1..n
    BY <2>1, <2>3
  <2>6. EarnedBefore(c) \in SUBSET [kind : CardKinds, from : Nat, to : Nat]
    BY <2>2, <2>4, <2>5 DEF EarnedBefore, TypeOK
  <2> QED BY <1>2, <2>2, <2>4, <2>5, <2>6 DEF EarnedAfter, EarnedType, TypeOK
<1> QED BY <1>1, <1>2

-----------------------------------------------------------------------------
(* Types *)

\* The type invariant: no stage leaves the scripts, no grade the passages.
THEOREM TypeCorrect == Spec => []TypeOK
<1>1. Init => TypeOK
  <2> SUFFICES ASSUME Init PROVE TypeOK
    OBVIOUS
  <2>1. layout \in [Verses -> Shapes]
    BY MemoriseAssumption DEF Init, Shapes
  <2>2. log \in LogType
    BY DEF Init, Blank, LogType
  <2> QED BY <2>1, <2>2, MemoriseAssumption DEF Init, TypeOK, LogType
<1>2. TypeOK /\ [Next]_vars => TypeOK'
  <2> SUFFICES ASSUME TypeOK, [Next]_vars PROVE TypeOK'
    OBVIOUS
  <2> USE MemoriseAssumption
  <2>1. CASE UNCHANGED vars
    BY <2>1 DEF TypeOK, vars, Shapes, VersesOf
  <2>2. ASSUME NEW id \in Ids, NEW a \in Verses, NEW b \in Verses, AddPassage(id, a, b)
        PROVE  TypeOK'
    BY <2>2 DEF AddPassage, Edit, answerVars, TypeOK
  <2>3. ASSUME NEW id \in Ids, DeletePassage(id)
        PROVE  TypeOK'
    <3>1. passages[id] \in [first : Verses, last : Verses, live : BOOLEAN]
      BY <2>3 DEF TypeOK, DeletePassage, Live
    <3>2. passages' \in [Ids -> [first : Verses, last : Verses, live : BOOLEAN] \cup {NoPassage}]
      BY <2>3, <3>1 DEF TypeOK, DeletePassage
    <3> QED BY <2>3, <3>2 DEF DeletePassage, Edit, answerVars, TypeOK
  <2>4. ASSUME NEW v \in Verses, NEW shape \in Shapes, NEW restart, Reshape(v, shape, restart)
        PROVE  TypeOK'
    <3>1. rows' \in [Verses -> VerseRows(MaxLines) \cup {NoRow}]
      <4>1. Restarted(rows[v]) \in VerseRows(MaxLines) \cup {NoRow}
        <5>1. CASE rows[v] = NoRow
          BY <5>1 DEF Restarted
        <5>2. CASE rows[v] # NoRow
          BY <5>2, RowTypes DEF TypeOK
        <5> QED BY <5>1, <5>2
      <4> QED BY <2>4, <4>1 DEF Reshape, TypeOK
    <3>2. earned' \in EarnedType
      BY <2>4 DEF Reshape, TypeOK, EarnedType
    <3>3. layout' \in [Verses -> Shapes]
      BY <2>4 DEF Reshape, TypeOK
    <3> QED BY <2>4, <3>1, <3>2, <3>3 DEF Reshape, Edit, TypeOK, EarnedType
  <2>5. ASSUME NEW v \in Verses, NEW lines \in 0..MaxLines, SetLineStarts(v, lines)
        PROVE  TypeOK'
    <3>1. [layout[v] EXCEPT !.lines = lines] \in Shapes
      BY DEF TypeOK, Shapes
    <3> QED BY <2>4, <2>5, <3>1 DEF SetLineStarts
  <2>6. ASSUME NEW v \in Verses, NEW opens \in BOOLEAN, SetSectionStart(v, opens)
        PROVE  TypeOK'
    <3>1. [layout[v] EXCEPT !.opens = opens] \in Shapes
      BY DEF TypeOK, Shapes
    <3> QED BY <2>4, <2>6, <3>1 DEF SetSectionStart
  <2>7. ASSUME NEW v \in Verses, NEW shape \in Shapes, KilledInReshape(v, shape)
        PROVE  TypeOK'
    <3>1. earned' \in EarnedType /\ layout' \in [Verses -> Shapes]
      BY <2>7 DEF KilledInReshape, TypeOK, EarnedType
    <3> QED BY <2>7, <3>1 DEF KilledInReshape, Edit, answerVars, TypeOK, EarnedType
  <2>8. ASSUME card' \in Cards, UNCHANGED <<shapeVars, answerVars, counters, earned>>
        PROVE  TypeOK'
    BY <2>8 DEF shapeVars, answerVars, counters, TypeOK
  <2>9. ASSUME NEW scope \in Scopes, NEW room \in BOOLEAN, ShowItem(scope, room)
        PROVE  TypeOK'
    BY <2>8, <2>9, NextItemType DEF ShowItem
  <2>10. ASSUME NEW id \in Scopes \ {All}, ShowRun(id)
         PROVE  TypeOK'
    <3>1. Known(id, rows) \in SUBSET Verses
      BY DEF Known, VersesOf
    <3>2. card' \in Cards
      BY <2>10, <3>1, RecitalType DEF ShowRun, CardKinds
    <3> QED BY <2>8, <2>10, <3>2 DEF ShowRun
  <2>11. ASSUME card # NoCard, NEW g \in GradesOf(card), Answer(g)
         PROVE  TypeOK'
    <3>1. card \in Cards /\ Accepts(card) /\ card.covers \in SUBSET card.covers
      BY <2>11 DEF TypeOK, Answer
    <3>2. rows' \in [Verses -> VerseRows(MaxLines) \cup {NoRow}]
      BY <2>11, <3>1, RowsAfterType DEF Answer
    <3>3. run' \in RunType /\ log' \in LogType
      BY <2>11, <3>1, LogAfterType DEF Answer
    <3>4. earned' \in EarnedType
      BY <2>11, <3>1, EarnedAfterType DEF Answer
    <3> QED BY <2>11, <3>2, <3>3, <3>4
            DEF Answer, shapeVars, counters, TypeOK, RunType, LogType, EarnedType
  <2>12. ASSUME card # NoCard, NEW g \in GradesOf(card), KilledInAnswer(g)
         PROVE  TypeOK'
    <3>1. card \in Cards /\ Accepts(card) /\ card.covers \in SUBSET card.covers
      BY <2>12 DEF TypeOK, KilledInAnswer
    <3>2. rows' \in [Verses -> VerseRows(MaxLines) \cup {NoRow}]
      BY <2>12, <3>1, RowsAfterType DEF KilledInAnswer
    <3>3. run' \in RunType /\ log' \in LogType
      BY <2>12, <3>1, LogAfterType DEF KilledInAnswer, TypeOK, RunType, LogType
    <3>4. earned' \in EarnedType
      BY <2>12, <3>1, EarnedAfterType DEF KilledInAnswer
    <3>5. kills' \in 0..MaxKills
      BY <2>12 DEF KilledInAnswer, TypeOK
    <3>6. UNCHANGED <<passages, layout, card, edits, days, cutEdits>>
      BY <2>12 DEF KilledInAnswer, shapeVars
    <3> QED BY <3>2, <3>3, <3>4, <3>5, <3>6 DEF TypeOK, RunType, LogType, EarnedType
  <2>13. ASSUME NEW vs \in SUBSET {v \in Verses : Learnt(rows[v])},
                NEW ids \in SUBSET {id \in Ids : run[id] = "later"}, DatesCome(vs, ids)
         PROVE  TypeOK'
    <3>1. ASSUME NEW v \in vs PROVE [rows[v] EXCEPT !.due = TRUE] \in VerseRows(MaxLines)
      <4>1. rows[v] \in VerseRows(MaxLines)
        BY DEF Learnt, TypeOK
      <4> QED BY <4>1 DEF VerseRows
    <3>2. rows' \in [Verses -> VerseRows(MaxLines) \cup {NoRow}]
      BY <2>13, <3>1 DEF DatesCome, TypeOK
    <3>3. run' \in RunType
      BY <2>13 DEF DatesCome, TypeOK, RunType
    <3> QED BY <2>13, <3>2, <3>3 DEF DatesCome, shapeVars, TypeOK, RunType
  <2> QED BY <2>1, <2>2, <2>3, <2>5, <2>6, <2>7, <2>9, <2>10, <2>11, <2>12, <2>13
          DEF Next, Shape, Show
<1> QED BY <1>1, <1>2, PTL DEF Spec

\* Only a late or a second answer is ignored, while the passages agree.
THEOREM NextCardCorrect == Spec => []NextCardCounts
BY TypeCorrect, AnswerCounts, PTL
-----------------------------------------------------------------------------
(* Learning in order *)

\* All verses of some passage before v have been learnt.
Startable(v) ==
  \E id \in Ids :
    /\ passages[id] # NoPassage /\ v \in VersesOf(id)
    /\ \A w \in VersesOf(id) : w < v => rows[w] # NoRow /\ rows[w].been

\* The inductive invariant: the card on the screen may be a new verse's, and
\* it was chosen because the verses before it were learnt.
LearntBeen == \A v \in Verses : Learnt(rows[v]) => rows[v].been
CardInOrder == card # NoCard /\ IsLearning(card) => Startable(card.verse)
OrderInv == LearntBeen /\ StartedInOrder /\ CardInOrder

\* What no step takes back.
PassagesKept ==
  \A id \in Ids : passages[id] # NoPassage =>
    /\ passages'[id] # NoPassage
    /\ passages'[id].first = passages[id].first /\ passages'[id].last = passages[id].last
BeenKept ==
  \A v \in Verses : rows[v] # NoRow /\ rows[v].been => rows'[v] # NoRow /\ rows'[v].been

\* A verse that may be begun stays one.
LEMMA StartableKept ==
  ASSUME PassagesKept, BeenKept, NEW v \in Verses, Startable(v)
  PROVE  Startable(v)'
<1>1. PICK id \in Ids : /\ passages[id] # NoPassage /\ v \in VersesOf(id)
                        /\ \A w \in VersesOf(id) : w < v => rows[w] # NoRow /\ rows[w].been
  BY DEF Startable
<1>2. passages'[id] # NoPassage /\ VersesOf(id)' = VersesOf(id)
  BY <1>1 DEF PassagesKept, VersesOf
<1>3. \A w \in VersesOf(id) : w < v => rows'[w] # NoRow /\ rows'[w].been
  BY <1>1 DEF BeenKept, VersesOf
<1> QED BY <1>1, <1>2, <1>3 DEF Startable

\* So the order is kept by a step that begins no other verse.
LEMMA OrderKept ==
  ASSUME TypeOK, OrderInv, PassagesKept, BeenKept, LearntBeen',
         \A v \in Verses : rows'[v] # NoRow => rows[v] # NoRow \/ Startable(v),
         card' = card
  PROVE  OrderInv'
<1>1. \A v \in Verses : rows[v] # NoRow => Startable(v)
  BY DEF OrderInv, StartedInOrder, Startable
<1>2. \A v \in Verses : rows'[v] # NoRow => Startable(v)'
  BY <1>1, StartableKept
<1>3. StartedInOrder'
  BY <1>2 DEF StartedInOrder, Startable
<1>4. CardInOrder'
  <2> SUFFICES ASSUME card # NoCard, IsLearning(card)
               PROVE  Startable(card.verse)'
    BY DEF CardInOrder
  <2>1. PICK v \in Verses : v = card.verse
    BY DEF TypeOK, Cards
  <2>2. Startable(v)'
    BY <2>1, StartableKept DEF OrderInv, CardInOrder
  <2> QED BY <2>1, <2>2 DEF Startable
<1> QED BY <1>3, <1>4 DEF OrderInv

\* The verse that is shown next may be begun.
LEMMA LessonStartable ==
  ASSUME TypeOK, LearntBeen, NEW scope \in Ids \cup {All}, NEW room, NEW c \in NextItem(scope, room),
         IsLearning(c)
  PROVE  c.verse \in Verses /\ Startable(c.verse)
<1>1. IsLesson(scope, c)
  <2>1. ASSUME NEW purpose \in {"review", "run"}, NEW vs, c = RecitalCard(scope, purpose, vs)
        PROVE  FALSE
    BY <2>1 DEF RecitalCard, IsLearning
  <2> QED BY <2>1, NextItemParts
<1>2. PICK id \in Scope(scope), v \in Verses :
        /\ c = StepCard(scope, id, v, CurrentStep(id, v))
        /\ v \in Unlearnt(id) /\ \A w \in Unlearnt(id) : v <= w
  BY <1>1 DEF IsLesson
<1>3. id \in Ids /\ passages[id] # NoPassage
  BY MemoriseAssumption DEF Scope, Live
<1>4. c.verse = v
  BY <1>2, <1>3, LessonIs
<1>5. ASSUME NEW w \in VersesOf(id), w < v
      PROVE  rows[w] # NoRow /\ rows[w].been
  <2>1. w \in Nat /\ v \in Nat /\ w \in Verses
    BY MemoriseAssumption DEF VersesOf
  <2>2. w \notin Unlearnt(id)
    BY <1>2, <1>5, <2>1
  <2>3. Learnt(rows[w])
    BY <2>2 DEF Unlearnt, Known
  <2> QED BY <2>1, <2>3 DEF LearntBeen, Learnt
<1> QED BY <1>2, <1>3, <1>4, <1>5 DEF Startable, Unlearnt

\* An answer begins only the verse on its card, and no verse that has been
\* learnt is as if it had not.
LEMMA RowsAfterOrder ==
  ASSUME TypeOK, LearntBeen, NEW c \in Cards, Accepts(c), NEW g \in GradesOf(c),
         NEW done \in SUBSET c.covers, NEW v \in Verses, NEW row, row = RowsAfter(c, g, done)[v]
  PROVE  /\ rows[v] # NoRow /\ rows[v].been => row # NoRow /\ row.been
         /\ row # NoRow => rows[v] # NoRow \/ (IsLearning(c) /\ v = c.verse)
         /\ Learnt(row) => row.been
<1>0. rows[v] # NoRow => rows[v] \in VerseRows(MaxLines)
  BY DEF TypeOK
<1>1. CASE IsLearning(c) /\ v = c.verse
  <2>1. row = Target(c, g) /\ row \in VerseRows(MaxLines) /\ row # NoRow
    BY <1>1, TargetType, MemoriseAssumption DEF RowsAfter
  <2>2. ~Learnt(rows[v])
    BY <1>1 DEF Accepts
  <2>3. rows[v] # NoRow /\ rows[v].been => row.been
    BY <1>0, <1>1, <2>1 DEF Target, Moved, Row, VerseRows
  <2>4. row.learnt => row.been
    BY <1>0, <1>1, <2>1, <2>2 DEF Target, Moved, Row, NewRow, VerseRows, Learnt
  <2> QED BY <1>1, <2>1, <2>3, <2>4 DEF Learnt
<1>2. CASE ~(IsLearning(c) /\ v = c.verse) /\ v \in done /\ Learnt(rows[v])
  <2>1. row = Reviewed(rows[v], g[v]) /\ rows[v] # NoRow /\ rows[v].been
    BY <1>2 DEF RowsAfter, LearntBeen, Learnt
  <2>2. row.been
    BY <1>0, <2>1 DEF Reviewed, Row, VerseRows
  <2>3. row # NoRow
    <3>1. g[v] \in GradeKinds
      BY <1>2, MemoriseAssumption DEF GradesOf
    <3> QED BY <1>0, <2>1, <3>1, RowTypes, MemoriseAssumption
  <2> QED BY <2>1, <2>2, <2>3
<1>3. CASE ~(IsLearning(c) /\ v = c.verse) /\ ~(v \in done /\ Learnt(rows[v]))
  BY <1>3 DEF RowsAfter, LearntBeen
<1> QED BY <1>1, <1>2, <1>3

\* Nor do the other things that happen to a row.
LEMMA OtherRows ==
  ASSUME NEW row \in VerseRows(MaxLines)
  PROVE  /\ Restarted(row) # NoRow /\ Restarted(row).been = row.been
         /\ Restarted(row).learnt = row.learnt
         /\ [row EXCEPT !.due = TRUE] # NoRow /\ [row EXCEPT !.due = TRUE].been = row.been
         /\ [row EXCEPT !.due = TRUE].learnt = row.learnt
         /\ [row EXCEPT !.due = TRUE].stage = row.stage
<1>1. Restarted(row) \in VerseRows(MaxLines)
  BY RowTypes, MemoriseAssumption
<1>2. [row EXCEPT !.due = TRUE] \in VerseRows(MaxLines)
  BY DEF VerseRows
<1>3. Restarted(row).been = row.been /\ Restarted(row).learnt = row.learnt
  BY DEF Restarted, VerseRows
<1>4. /\ [row EXCEPT !.due = TRUE].been = row.been
      /\ [row EXCEPT !.due = TRUE].learnt = row.learnt
      /\ [row EXCEPT !.due = TRUE].stage = row.stage
  BY DEF VerseRows
<1> QED BY <1>1, <1>2, <1>3, <1>4, MemoriseAssumption

\* Learning never jumps about: a verse is begun only where every verse of the
\* passage before it has been learnt, whatever is forgotten, reshaped, deleted,
\* cut short or answered late.
THEOREM OrderCorrect == Spec => []StartedInOrder
<1>1. Init => OrderInv
  BY DEF Init, OrderInv, LearntBeen, StartedInOrder, CardInOrder, Learnt
<1>2. TypeOK /\ OrderInv /\ [Next]_vars => OrderInv'
  <2> SUFFICES ASSUME TypeOK, OrderInv, [Next]_vars PROVE OrderInv'
    OBVIOUS
  <2>0. LearntBeen
    BY DEF OrderInv
  <2>1. ASSUME UNCHANGED <<passages, rows, card>> PROVE OrderInv'
    BY <2>1, OrderKept, <2>0 DEF PassagesKept, BeenKept, LearntBeen
  <2>2. ASSUME NEW id \in Ids, NEW a \in Verses, NEW b \in Verses, AddPassage(id, a, b)
        PROVE  OrderInv'
    <3>1. PassagesKept
      BY <2>2 DEF AddPassage, PassagesKept, TypeOK
    <3> QED BY <2>0, <2>2, <3>1, OrderKept DEF AddPassage, answerVars, BeenKept, LearntBeen
  <2>3. ASSUME NEW id \in Ids, DeletePassage(id)
        PROVE  OrderInv'
    <3>1. passages[id] \in [first : Verses, last : Verses, live : BOOLEAN]
      BY <2>3 DEF TypeOK, DeletePassage, Live
    <3>2. [passages[id] EXCEPT !.live = FALSE] \in [first : Verses, last : Verses, live : BOOLEAN]
      BY <3>1
    <3>3. [passages[id] EXCEPT !.live = FALSE] # NoPassage
      BY <3>2, MemoriseAssumption
    <3>4. PassagesKept
      BY <2>3, <3>1, <3>3 DEF DeletePassage, PassagesKept, TypeOK
    <3> QED BY <2>0, <2>3, <3>4, OrderKept DEF DeletePassage, answerVars, BeenKept, LearntBeen
  <2>4. ASSUME NEW v \in Verses, NEW shape, NEW restart, Reshape(v, shape, restart)
        PROVE  OrderInv'
    <3>1. \A w \in Verses : \/ rows'[w] = rows[w]
                            \/ w = v /\ rows'[w] = Restarted(rows[w])
      BY <2>4 DEF Reshape, TypeOK
    <3>2. \A w \in Verses : rows[w] # NoRow => rows[w] \in VerseRows(MaxLines)
      BY DEF TypeOK
    <3>3. Restarted(NoRow) = NoRow
      BY DEF Restarted
    <3>4. BeenKept /\ LearntBeen' /\ \A w \in Verses : rows'[w] # NoRow => rows[w] # NoRow
      BY <2>0, <3>1, <3>2, <3>3, OtherRows DEF BeenKept, LearntBeen, Learnt
    <3> QED BY <2>4, <3>4, OrderKept DEF Reshape, PassagesKept
  <2>5. ASSUME NEW v \in Verses, NEW shape \in Shapes, KilledInReshape(v, shape)
        PROVE  OrderInv'
    BY <2>1, <2>5 DEF KilledInReshape, answerVars
  <2>6. ASSUME UNCHANGED <<passages, rows>>, card' \in Cards,
               IsLearning(card') => card'.verse \in Verses /\ Startable(card'.verse)
        PROVE  OrderInv'
    <3>1. PassagesKept /\ BeenKept /\ LearntBeen' /\ StartedInOrder'
      BY <2>6, <2>0 DEF PassagesKept, BeenKept, OrderInv, LearntBeen, StartedInOrder, VersesOf
    <3>2. CardInOrder'
      BY <2>6 DEF CardInOrder, Startable, VersesOf
    <3> QED BY <3>1, <3>2 DEF OrderInv
  <2>7. ASSUME NEW scope \in Scopes, NEW room \in BOOLEAN, ShowItem(scope, room)
        PROVE  OrderInv'
    <3>1. scope \in Ids \cup {All} /\ card' \in NextItem(scope, room)
      BY <2>7, MemoriseAssumption DEF ShowItem
    <3>2. card' \in Cards
      BY <3>1, NextItemType
    <3>3. IsLearning(card') => card'.verse \in Verses /\ Startable(card'.verse)
      BY <2>0, <3>1, LessonStartable
    <3> QED BY <2>6, <2>7, <3>2, <3>3 DEF ShowItem, shapeVars, answerVars
  <2>8. ASSUME NEW id \in Scopes \ {All}, ShowRun(id)
        PROVE  OrderInv'
    <3>1. id \in Ids \cup {All} /\ Known(id, rows) \in SUBSET Verses /\ Known(id, rows) # {}
      BY <2>8, MemoriseAssumption DEF Known, VersesOf, ShowRun
    <3>2. card' \in Cards
      BY <2>8, <3>1, RecitalType DEF ShowRun, CardKinds
    <3>3. ~IsLearning(card')
      BY <2>8 DEF ShowRun, RecitalCard, IsLearning
    <3> QED BY <2>6, <2>8, <3>2, <3>3 DEF ShowRun, shapeVars, answerVars
  <2>9. ASSUME card # NoCard, NEW g \in GradesOf(card), NEW done \in SUBSET card.covers,
               Accepts(card), rows' = RowsAfter(card, g, done), UNCHANGED <<passages, card>>
        PROVE  OrderInv'
    <3>1. card \in Cards
      BY <2>9 DEF TypeOK
    <3>2. \A v \in Verses :
            /\ rows[v] # NoRow /\ rows[v].been => rows'[v] # NoRow /\ rows'[v].been
            /\ rows'[v] # NoRow => rows[v] # NoRow \/ (IsLearning(card) /\ v = card.verse)
            /\ Learnt(rows'[v]) => rows'[v].been
      BY <2>0, <2>9, <3>1, RowsAfterOrder
    <3>3. BeenKept /\ LearntBeen'
      BY <3>2 DEF BeenKept, LearntBeen
    <3>4. \A v \in Verses : rows'[v] # NoRow => rows[v] # NoRow \/ Startable(v)
      BY <2>9, <3>2 DEF OrderInv, CardInOrder
    <3>5. PassagesKept
      BY <2>9 DEF PassagesKept
    <3> QED BY <2>9, <3>3, <3>4, <3>5, OrderKept
  <2>10. ASSUME card # NoCard, NEW g \in GradesOf(card), Answer(g)
         PROVE  OrderInv'
    BY <2>9, <2>10 DEF Answer, shapeVars
  <2>11. ASSUME card # NoCard, NEW g \in GradesOf(card), KilledInAnswer(g)
         PROVE  OrderInv'
    <3>1. PICK done \in SUBSET card.covers : rows' = RowsAfter(card, g, done)
      BY <2>11 DEF KilledInAnswer
    <3> QED BY <2>9, <2>11, <3>1 DEF KilledInAnswer, shapeVars
  <2>12. ASSUME NEW vs \in SUBSET {v \in Verses : Learnt(rows[v])}, NEW ids, DatesCome(vs, ids)
         PROVE  OrderInv'
    <3>1. \A v \in Verses : \/ rows'[v] = rows[v]
                            \/ rows[v] # NoRow /\ rows'[v] = [rows[v] EXCEPT !.due = TRUE]
      BY <2>12 DEF DatesCome, Learnt
    <3>2. ASSUME NEW v \in Verses, NEW row, row = rows'[v]
          PROVE  /\ rows[v] # NoRow /\ rows[v].been => row # NoRow /\ row.been
                 /\ row # NoRow => rows[v] # NoRow
                 /\ Learnt(row) => row.been
      <4>1. CASE row = rows[v]
        BY <2>0, <4>1 DEF LearntBeen
      <4>2. CASE rows[v] # NoRow /\ row = [rows[v] EXCEPT !.due = TRUE]
        <5>1. rows[v] \in VerseRows(MaxLines)
          BY <4>2 DEF TypeOK
        <5> QED BY <2>0, <4>2, <5>1, OtherRows DEF LearntBeen, Learnt
      <4> QED BY <3>1, <3>2, <4>1, <4>2
    <3>3. BeenKept /\ LearntBeen' /\ \A v \in Verses : rows'[v] # NoRow => rows[v] # NoRow
      BY <3>2 DEF BeenKept, LearntBeen
    <3> QED BY <2>12, <3>3, OrderKept DEF DatesCome, shapeVars, PassagesKept
  <2> QED BY <2>1, <2>2, <2>3, <2>4, <2>5, <2>7, <2>8, <2>10, <2>11, <2>12
          DEF Next, Shape, Show, SetLineStarts, SetSectionStart, vars
<1>3. OrderInv => StartedInOrder
  BY DEF OrderInv
<1> QED BY <1>1, <1>2, <1>3, TypeCorrect, PTL DEF Spec
-----------------------------------------------------------------------------
(* Steps that were earned *)

\* Every step behind a verse in its steps was passed, under its present shape.
\* Where a layout's storing was cut from the restart of its steps it was not.
InSteps(row) == row # NoRow /\ ~Learnt(row) /\ row.stage # Relearn
Behind(table, got, v) ==
  InSteps(table[v]) =>
    \A q \in 1..LineStepCount(Lines(v)) : q <= table[v].stage => LineStep(q - 1) \in got[v]
EarnedInv == cutEdits = 0 => \A v \in Verses : Behind(rows, earned, v)

\* The invariant speaks of no passage, and holds of the script in each of them.
LEMMA EarnedInEach == TypeOK /\ EarnedInv => (cutEdits = 0 => StepsEarned)
<1> SUFFICES ASSUME TypeOK, EarnedInv, cutEdits = 0, NEW v \in Verses, NEW id \in Ids,
                    InSteps(rows[v]),
                    NEW q \in 1..ResolveStep(rows[v].stage, Steps(id, v), Lines(v))
             PROVE  Steps(id, v)[q] \in earned[v]
  BY DEF StepsEarned, InSteps
<1>1. ResolveStep(rows[v].stage, Steps(id, v), Lines(v)) = CurrentStep(id, v)
  BY DEF CurrentStep, InSteps
<1>2. PICK s \in Nat : s = CurrentStep(id, v)
  BY CurrentPlace DEF Relearn
<1>3. PICK n \in Nat : n = Len(Steps(id, v))
  BY StepsAre
<1>4. s <= n - 1 /\ s <= rows[v].stage
  BY <1>2, <1>3, CurrentPlace DEF InSteps
<1>5. PICK m \in Nat : m = LineStepCount(Lines(v)) /\ n <= m + 1
  <2>1. LineStepCount(Lines(v)) \in Nat
    BY StepsAre, ScriptLength
  <2> QED BY <1>3, <2>1, StepsAre
<1>6. rows[v].stage \in Nat
  BY MemoriseAssumption DEF InSteps, TypeOK, VerseRows, LineStepCount
<1>7. q \in Nat /\ 1 <= q /\ q <= s
  BY <1>1, <1>2
<1>8. q \in 1..n /\ q \in 1..m /\ q <= rows[v].stage
  BY <1>4, <1>5, <1>6, <1>7
<1>9. Steps(id, v)[q] = LineStep(q - 1)
  BY <1>3, <1>5, <1>8, StepIs
<1> QED BY <1>5, <1>8, <1>9 DEF EarnedInv, Behind

\* The steps before the one that an answer is for were passed.
LEMMA EarnedSoFar ==
  ASSUME TypeOK, \A v \in Verses : Behind(rows, earned, v),
         NEW c \in Cards, IsLearning(c), Accepts(c), NEW q \in 1..c.step
  PROVE  StepsOf(c)[q] \in EarnedBefore(c)
<1> DEFINE v == c.verse
<1>0. v \in Verses
  BY DEF Cards
<1>1. PICK id \in Ids :
        /\ StepsOf(c) = Steps(id, v) /\ c.step = CurrentStep(id, v)
        /\ c.step \in Nat /\ c.step <= Len(StepsOf(c)) - 1
        /\ ~Learnt(rows[v])
  BY Taken
<1> HIDE DEF v
<1>2. CASE rows[v] = NoRow
  BY <1>1, <1>2 DEF CurrentStep
<1>3. CASE rows[v] # NoRow /\ rows[v].stage = Relearn
  BY <1>3 DEF EarnedBefore, v
<1>4. CASE InSteps(rows[v])
  <2>1. PICK n \in Nat, m \in Nat :
          n = Len(Steps(id, v)) /\ m = LineStepCount(Lines(v)) /\ n <= m + 1
    <3>1. LineStepCount(Lines(v)) \in Nat
      BY <1>0, StepsAre, ScriptLength
    <3> QED BY <1>0, <3>1, StepsAre
  <2>2. c.step <= rows[v].stage
    BY <1>0, <1>1, <1>4, CurrentPlace DEF InSteps
  <2>3. rows[v].stage \in Nat
    BY <1>0, <1>4, MemoriseAssumption DEF InSteps, TypeOK, VerseRows, LineStepCount
  <2>4. q \in 1..n /\ q \in 1..m /\ q <= rows[v].stage
    BY <1>1, <2>1, <2>2, <2>3
  <2>5. StepsOf(c)[q] = LineStep(q - 1)
    BY <1>0, <1>1, <2>1, <2>4, StepIs
  <2>6. LineStep(q - 1) \in earned[v]
    BY <1>0, <1>4, <2>1, <2>4 DEF Behind
  <2> QED BY <1>4, <2>5, <2>6 DEF EarnedBefore, InSteps, v
<1> QED BY <1>1, <1>2, <1>3, <1>4 DEF InSteps

\* Where an answer moves its verse to.
LEMMA TargetIs ==
  ASSUME TypeOK, NEW c \in Cards, IsLearning(c), Accepts(c), NEW g,
         NEW next, next = NextStep(c.purpose, g[c.verse], c.step)
  PROVE  /\ next \in Nat /\ next <= c.step + 1
         /\ next > c.step => c.purpose = "read" \/ Well(g[c.verse])
         /\ Target(c, g) # NoRow
         /\ Target(c, g).learnt <=> next >= Len(StepsOf(c))
         /\ next < Len(StepsOf(c)) => Target(c, g).stage = next
<1> DEFINE row == IF rows[c.verse] = NoRow THEN NewRow ELSE rows[c.verse]
<1>1. c.step \in Nat /\ ~Learnt(rows[c.verse])
  BY Taken
<1>2. row \in VerseRows(MaxLines) /\ row.learnt = FALSE
  <2>1. c.verse \in Verses
    BY DEF Cards
  <2>2. rows[c.verse] # NoRow =>
          rows[c.verse] \in VerseRows(MaxLines) /\ rows[c.verse].learnt = FALSE
    BY <1>1, <2>1 DEF TypeOK, Learnt, VerseRows
  <2>3. NewRow.learnt = FALSE /\ NewRow \in VerseRows(MaxLines)
    BY RowTypes, MemoriseAssumption DEF NewRow, Row
  <2> QED BY <2>2, <2>3
<1>3. Target(c, g) = Moved(row, next, StepsOf(c))
  BY DEF Target
<1>4. Target(c, g) # NoRow
  BY TargetType, MemoriseAssumption
<1>5. next \in Nat /\ next <= c.step + 1 /\ (next > c.step => c.purpose = "read" \/ Well(g[c.verse]))
  BY <1>1 DEF NextStep
<1> HIDE DEF row
<1>6. PICK n \in Nat : n = Len(StepsOf(c))
  <2>1. \E id \in Ids : StepsOf(c) = Steps(id, c.verse)
    BY Taken
  <2> QED BY <2>1, StepsAre DEF Cards
<1>7. Target(c, g).learnt <=> next >= n
  BY <1>2, <1>3, <1>6 DEF Moved, Row, VerseRows
<1>8. ASSUME next < n PROVE Target(c, g).stage = next
  <2>1. ~(next >= Len(StepsOf(c)))
    <3>1. ~(next >= n)
      BY <1>5, <1>8
    <3> QED BY <1>6, <3>1
  <2>2. Target(c, g) = [row EXCEPT !.stage = next]
    BY <1>3, <2>1 DEF Moved
  <2> QED BY <1>2, <2>2 DEF VerseRows
<1> QED BY <1>4, <1>5, <1>6, <1>7, <1>8

\* After the answer as well.
LEMMA BehindAfter ==
  ASSUME TypeOK, \A v \in Verses : Behind(rows, earned, v),
         NEW c \in Cards, Accepts(c), NEW g \in GradesOf(c), NEW done \in SUBSET c.covers,
         NEW v \in Verses
  PROVE  Behind(RowsAfter(c, g, done), EarnedAfter(c, g), v)
<1>1. CASE IsLearning(c) /\ v = c.verse
  <2>1. PICK id \in Ids :
          /\ StepsOf(c) = Steps(id, v)
          /\ c.step \in Nat /\ c.step <= Len(StepsOf(c)) - 1
    BY <1>1, Taken
  <2>2. PICK n \in Nat : n = Len(StepsOf(c))
    BY <2>1, StepsAre
  <2>3. PICK next : next = NextStep(c.purpose, g[v], c.step)
    OBVIOUS
  <2>4. RowsAfter(c, g, done)[v] = Target(c, g)
    BY <1>1 DEF RowsAfter
  <2>5. /\ next \in Nat /\ next <= c.step + 1
        /\ next > c.step => c.purpose = "read" \/ Well(g[v])
        /\ Target(c, g) # NoRow
        /\ Target(c, g).learnt <=> next >= n
        /\ next < n => Target(c, g).stage = next
    BY <1>1, <2>2, <2>3, TargetIs
  <2> SUFFICES ASSUME InSteps(Target(c, g)),
                      NEW q \in 1..LineStepCount(Lines(v)), q <= Target(c, g).stage
               PROVE  LineStep(q - 1) \in EarnedAfter(c, g)[v]
    BY <2>4 DEF Behind
  <2>6. next < n /\ Target(c, g).stage = next
    BY <2>5 DEF InSteps, Learnt
  <2>7. q \in 1..n /\ q <= c.step + 1 /\ (q = c.step + 1 => c.purpose = "read" \/ Well(g[v]))
    <3>1. q \in Nat /\ 1 <= q
      <4>1. LineStepCount(Lines(v)) \in Nat
        BY StepsAre, ScriptLength
      <4> QED BY <4>1
    <3> QED BY <2>1, <2>5, <2>6, <3>1
  <2>8. StepsOf(c)[q] = LineStep(q - 1)
    <3>1. LineStepCount(Lines(v)) \in Nat
      BY StepsAre, ScriptLength
    <3>2. q <= LineStepCount(Lines(v))
      BY <3>1
    <3> QED BY <2>1, <2>2, <2>7, <3>2, StepIs
  <2>9. EarnedAfter(c, g)[v] = EarnedBefore(c) \cup
          IF c.purpose = "read" \/ Well(g[v]) THEN {StepsOf(c)[c.step + 1]} ELSE {}
    BY <1>1 DEF EarnedAfter, TypeOK
  <2>10. CASE q = c.step + 1
    BY <2>7, <2>8, <2>9, <2>10
  <2>11. CASE q # c.step + 1
    <3>1. q \in 1..c.step
      BY <2>1, <2>7, <2>11
    <3> QED BY <1>1, <2>8, <2>9, <3>1, EarnedSoFar
  <2> QED BY <2>10, <2>11
<1>2. CASE ~(IsLearning(c) /\ v = c.verse)
  <2>1. EarnedAfter(c, g)[v] = earned[v]
    BY <1>2 DEF EarnedAfter, TypeOK, Cards
  <2>2. CASE v \in done /\ Learnt(rows[v])
    <3>1. RowsAfter(c, g, done)[v] = Reviewed(rows[v], g[v]) /\ rows[v] \in VerseRows(MaxLines)
      BY <1>2, <2>2 DEF RowsAfter, TypeOK, Learnt
    <3>2. ~InSteps(Reviewed(rows[v], g[v]))
      BY <2>2, <3>1 DEF Reviewed, Row, InSteps, Learnt, VerseRows
    <3> QED BY <3>1, <3>2 DEF Behind
  <2>3. CASE ~(v \in done /\ Learnt(rows[v]))
    <3>1. RowsAfter(c, g, done)[v] = rows[v]
      BY <1>2, <2>3 DEF RowsAfter
    <3> QED BY <2>1, <3>1 DEF Behind
  <2> QED BY <2>2, <2>3
<1> QED BY <1>1, <1>2

\* A verse that starts over, or whose shape stays, has nothing left to show.
LEMMA ReshapeBehind ==
  ASSUME TypeOK, \A v \in Verses : Behind(rows, earned, v),
         NEW v \in Verses, NEW shape \in Shapes, NEW restart, Reshape(v, shape, restart),
         NewScript(v, shape) = restart, restart \in BOOLEAN
  PROVE  \A w \in Verses : Behind(rows, earned, w)'
<1> SUFFICES ASSUME NEW w \in Verses
             PROVE  Behind(rows, earned, w)'
  OBVIOUS
<1>1. CASE w # v \/ ~restart
  <2>1. rows'[w] = rows[w] /\ earned'[w] = earned[w]
    BY <1>1 DEF Reshape, TypeOK
  <2>2. Lines(w)' = Lines(w)
    BY <1>1 DEF Reshape, NewScript, Lines, LineCount, TypeOK
  <2> QED BY <2>1, <2>2 DEF Behind
<1>2. CASE w = v /\ restart
  <2>1. rows'[w] = Restarted(rows[w])
    BY <1>2 DEF Reshape, TypeOK
  <2>2. InSteps(Restarted(rows[w])) => Restarted(rows[w]).stage = 0
    BY DEF Restarted, InSteps, TypeOK, VerseRows
  <2>3. Lines(w)' \in Nat \ {0}
    <3>1. layout'[w] = shape
      BY <1>2 DEF Reshape, TypeOK
    <3>2. shape.lines \in Nat
      BY MemoriseAssumption DEF Shapes
    <3> QED BY <3>1, <3>2 DEF Lines
  <2>4. LineStepCount(Lines(w)') \in Nat
    BY <2>3, ScriptLength
  <2>5. \A q \in 1..LineStepCount(Lines(w)') : ~(q <= 0)
    BY <2>4
  <2> QED BY <2>1, <2>2, <2>5 DEF Behind
<1> QED BY <1>1, <1>2

\* So it is invariant.
LEMMA EarnedAlways == Spec => [](TypeOK /\ EarnedInv)
<1>1. Init => EarnedInv
  BY DEF Init, EarnedInv, Behind, InSteps
<1>2. TypeOK /\ EarnedInv /\ [Next]_vars => EarnedInv'
  <2> SUFFICES ASSUME TypeOK, EarnedInv, [Next]_vars, cutEdits' = 0
               PROVE  \A v \in Verses : Behind(rows, earned, v)'
    BY DEF EarnedInv
  <2>1. ASSUME cutEdits' = cutEdits PROVE \A v \in Verses : Behind(rows, earned, v)
    BY <2>1 DEF EarnedInv
  <2>2. ASSUME UNCHANGED <<layout, rows, earned, cutEdits>>
        PROVE  \A v \in Verses : Behind(rows, earned, v)'
    BY <2>1, <2>2 DEF Behind, Lines
  <2>3. ASSUME NEW v \in Verses, NEW lines \in 0..MaxLines, SetLineStarts(v, lines)
        PROVE  \A w \in Verses : Behind(rows, earned, w)'
    <3>1. [layout[v] EXCEPT !.lines = lines] \in Shapes
      BY DEF TypeOK, Shapes
    <3>2. NewScript(v, [layout[v] EXCEPT !.lines = lines]) = (LineCount(lines) # Lines(v))
      <4>1. layout[v] \in Shapes
        BY DEF TypeOK
      <4> QED BY <4>1 DEF NewScript, Shapes
    <3>3. cutEdits' = cutEdits
      BY <2>3 DEF SetLineStarts, Reshape
    <3> QED BY <2>1, <2>3, <3>1, <3>2, <3>3, ReshapeBehind DEF SetLineStarts
  <2>4. ASSUME NEW v \in Verses, NEW opens \in BOOLEAN, SetSectionStart(v, opens)
        PROVE  \A w \in Verses : Behind(rows, earned, w)'
    <3>1. [layout[v] EXCEPT !.opens = opens] \in Shapes
      BY DEF TypeOK, Shapes
    <3>2. NewScript(v, [layout[v] EXCEPT !.opens = opens]) = (opens # layout[v].opens)
      <4>1. layout[v] \in Shapes
        BY DEF TypeOK
      <4>2. [layout[v] EXCEPT !.opens = opens].lines = layout[v].lines
            /\ [layout[v] EXCEPT !.opens = opens].opens = opens
        BY <4>1 DEF Shapes
      <4> QED BY <4>2 DEF NewScript, Lines, LineCount
    <3>3. cutEdits' = cutEdits
      BY <2>4 DEF SetSectionStart, Reshape
    <3> QED BY <2>1, <2>4, <3>1, <3>2, <3>3, ReshapeBehind DEF SetSectionStart
  <2>5. ASSUME NEW v \in Verses, NEW shape \in Shapes, KilledInReshape(v, shape)
        PROVE  FALSE
    BY <2>5 DEF KilledInReshape, TypeOK
  <2>6. ASSUME card # NoCard, NEW g \in GradesOf(card), NEW done \in SUBSET card.covers,
               Accepts(card), rows' = RowsAfter(card, g, done), earned' = EarnedAfter(card, g),
               UNCHANGED <<layout, cutEdits>>
        PROVE  \A v \in Verses : Behind(rows, earned, v)'
    <3>1. \A v \in Verses : Behind(RowsAfter(card, g, done), EarnedAfter(card, g), v)
      BY <2>1, <2>6, BehindAfter DEF TypeOK
    <3> QED BY <2>6, <3>1 DEF Behind, Lines
  <2>7. ASSUME card # NoCard, NEW g \in GradesOf(card), Answer(g)
        PROVE  \A v \in Verses : Behind(rows, earned, v)'
    BY <2>6, <2>7 DEF Answer, shapeVars, counters
  <2>8. ASSUME card # NoCard, NEW g \in GradesOf(card), KilledInAnswer(g)
        PROVE  \A v \in Verses : Behind(rows, earned, v)'
    <3>1. PICK done \in SUBSET card.covers : rows' = RowsAfter(card, g, done)
      BY <2>8 DEF KilledInAnswer
    <3> QED BY <2>6, <2>8, <3>1 DEF KilledInAnswer, shapeVars
  <2>9. ASSUME NEW vs \in SUBSET {v \in Verses : Learnt(rows[v])}, NEW ids, DatesCome(vs, ids)
        PROVE  \A v \in Verses : Behind(rows, earned, v)'
    <3> SUFFICES ASSUME NEW v \in Verses PROVE Behind(rows, earned, v)'
      OBVIOUS
    <3>0. Behind(rows, earned, v) /\ Lines(v)' = Lines(v) /\ earned' = earned
      BY <2>1, <2>9 DEF DatesCome, shapeVars, Lines
    <3>1. CASE v \in vs
      <4>1. rows[v] \in VerseRows(MaxLines) /\ Learnt(rows[v])
        BY <3>1 DEF TypeOK, Learnt
      <4>2. rows'[v] = [rows[v] EXCEPT !.due = TRUE]
        BY <2>9, <3>1 DEF DatesCome
      <4>3. ~InSteps(rows'[v])
        BY <4>1, <4>2, OtherRows DEF InSteps, Learnt
      <4> QED BY <4>3 DEF Behind
    <3>2. CASE v \notin vs
      <4>1. rows'[v] = rows[v]
        BY <2>9, <3>2 DEF DatesCome
      <4> QED BY <3>0, <4>1 DEF Behind
    <3> QED BY <3>1, <3>2
  <2> QED BY <2>2, <2>3, <2>4, <2>5, <2>7, <2>8, <2>9
          DEF Next, Shape, Show, AddPassage, DeletePassage, ShowItem, ShowRun,
              vars, shapeVars, answerVars, counters
<1> QED BY <1>1, <1>2, TypeCorrect, PTL DEF Spec

\* A stage is a place in the present script: each step behind it was passed
\* under this shape, in every passage that holds the verse.
THEOREM StepsCorrect == Spec => [](cutEdits = 0 => StepsEarned)
BY EarnedAlways, EarnedInEach, PTL

\* A verse becomes learnt by an answer to the last step of its script.
LEMMA GraduationEarned ==
  ASSUME TypeOK, \A v \in Verses : Behind(rows, earned, v),
         NEW c \in Cards, IsLearning(c), Accepts(c), NEW g, Target(c, g).learnt
  PROVE  \E id \in Ids : /\ Live(id) /\ c.verse \in VersesOf(id)
                         /\ \A q \in 1..Len(Steps(id, c.verse)) :
                              Steps(id, c.verse)[q] \in EarnedAfter(c, g)[c.verse]
<1> DEFINE v == c.verse
<1>1. PICK id \in Ids :
        /\ Live(id) /\ v \in VersesOf(id) /\ StepsOf(c) = Steps(id, v)
        /\ c.step \in Nat /\ c.step <= Len(StepsOf(c)) - 1
  BY Taken
<1>2. v \in Verses
  BY DEF Cards
<1>3. PICK n \in Nat : n = Len(StepsOf(c))
  BY <1>1, <1>2, StepsAre
<1>4. PICK next : next = NextStep(c.purpose, g[v], c.step)
  OBVIOUS
<1>5. /\ next \in Nat /\ next <= c.step + 1 /\ next >= n
      /\ next > c.step => c.purpose = "read" \/ Well(g[v])
  BY <1>3, <1>4, TargetIs
<1>6. n = c.step + 1 /\ (c.purpose = "read" \/ Well(g[v]))
  BY <1>1, <1>3, <1>5
<1>7. EarnedAfter(c, g)[v] = EarnedBefore(c) \cup {StepsOf(c)[c.step + 1]}
  BY <1>2, <1>6 DEF EarnedAfter, TypeOK
<1>8. ASSUME NEW q \in 1..n PROVE StepsOf(c)[q] \in EarnedAfter(c, g)[v]
  <2>1. q = c.step + 1 \/ q \in 1..c.step
    BY <1>1, <1>6
  <2> QED BY <1>7, <2>1, EarnedSoFar
<1> QED BY <1>1, <1>3, <1>8

\* A verse is learnt only through every step of its script, as long as no
\* reshaping has been cut short.
THEOREM GraduationCorrect == Spec /\ [](cutEdits = 0) => LearntThroughEveryStep
<1> DEFINE Through ==
      \A v \in Verses : ~Learnt(rows[v]) /\ Learnt(rows'[v]) =>
        \E id \in Ids : /\ Live(id) /\ v \in VersesOf(id)
                        /\ \A q \in 1..Len(Steps(id, v)) : Steps(id, v)[q] \in earned'[v]
<1>1. TypeOK /\ EarnedInv /\ cutEdits = 0 /\ [Next]_vars => [Through]_vars
  <2> SUFFICES ASSUME TypeOK, EarnedInv, cutEdits = 0, Next,
                      NEW v \in Verses, ~Learnt(rows[v]), Learnt(rows'[v])
               PROVE  \E id \in Ids : /\ Live(id) /\ v \in VersesOf(id)
                                      /\ \A q \in 1..Len(Steps(id, v)) : Steps(id, v)[q] \in earned'[v]
    OBVIOUS
  <2>0. \A w \in Verses : Behind(rows, earned, w)
    BY DEF EarnedInv
  <2>1. ASSUME NEW w \in Verses, NEW shape, NEW restart, Reshape(w, shape, restart)
        PROVE  FALSE
    <3>1. rows'[v] = rows[v] \/ rows'[v] = Restarted(rows[v])
      BY <2>1 DEF Reshape, TypeOK
    <3>2. rows[v] # NoRow => Restarted(rows[v]).learnt = rows[v].learnt
      BY OtherRows DEF TypeOK
    <3>3. Restarted(NoRow) = NoRow
      BY DEF Restarted
    <3> QED BY <3>1, <3>2, <3>3 DEF Learnt
  <2>2. ASSUME NEW vs \in SUBSET {w \in Verses : Learnt(rows[w])}, NEW ids, DatesCome(vs, ids)
        PROVE  FALSE
    BY <2>2 DEF DatesCome
  <2>3. ASSUME card # NoCard, NEW g \in GradesOf(card), NEW done \in SUBSET card.covers,
               Accepts(card), rows' = RowsAfter(card, g, done), earned' = EarnedAfter(card, g)
        PROVE  \E id \in Ids : /\ Live(id) /\ v \in VersesOf(id)
                               /\ \A q \in 1..Len(Steps(id, v)) : Steps(id, v)[q] \in earned'[v]
    <3>1. card \in Cards
      BY <2>3 DEF TypeOK
    <3>2. IsLearning(card) /\ v = card.verse /\ rows'[v] = Target(card, g)
      BY <2>3 DEF RowsAfter
    <3> QED BY <2>0, <2>3, <3>1, <3>2, GraduationEarned DEF Learnt
  <2>4. ASSUME card # NoCard, NEW g \in GradesOf(card), Answer(g) \/ KilledInAnswer(g)
        PROVE  \E done \in SUBSET card.covers :
                 /\ Accepts(card)
                 /\ rows' = RowsAfter(card, g, done) /\ earned' = EarnedAfter(card, g)
    BY <2>4 DEF Answer, KilledInAnswer
  <2> QED BY <2>1, <2>2, <2>3, <2>4
          DEF Next, Shape, Show, AddPassage, DeletePassage, SetLineStarts, SetSectionStart,
              KilledInReshape, ShowItem, ShowRun, answerVars
<1> HIDE DEF Through
<1>2. LearntThroughEveryStep <=> [][Through]_vars
  BY DEF LearntThroughEveryStep, Through
<1> QED BY <1>1, <1>2, EarnedAlways, PTL DEF Spec

-----------------------------------------------------------------------------
(* Bonuses *)

\* What was paid the log remembers; for passages only if no answer was cut
\* short between the first row of the log and the others.
FirstsOnce ==
  \A v \in Verses : log.firsts[v] <= 1 /\ (v \notin log.graduated => log.firsts[v] = 0)
PaidOnce ==
  \A id \in Ids : log.paid[id] <= 1 /\ (id \notin log.complete => log.paid[id] = 0)
BonusInv == FirstsOnce /\ (kills = 0 => PaidOnce)

\* What an answer pays.
LEMMA LogAfterOnce ==
  ASSUME TypeOK, NEW c \in Cards, NEW g, NEW table, FirstsOnce
  PROVE  /\ \A v \in Verses : LogFirst(c, g, table).firsts[v] <= 1
              /\ (v \notin LogFirst(c, g, table).graduated => LogFirst(c, g, table).firsts[v] = 0)
         /\ LogAfter(c, g, table).firsts = LogFirst(c, g, table).firsts
         /\ LogAfter(c, g, table).graduated = LogFirst(c, g, table).graduated
         /\ PaidOnce => \A id \in Ids : LogAfter(c, g, table).paid[id] <= 1
              /\ (id \notin LogAfter(c, g, table).complete => LogAfter(c, g, table).paid[id] = 0)
<1>1. ASSUME NEW v \in Verses
      PROVE  /\ LogFirst(c, g, table).firsts[v] <= 1
             /\ v \notin LogFirst(c, g, table).graduated => LogFirst(c, g, table).firsts[v] = 0
  <2>1. log.firsts[v] \in Nat
    BY DEF TypeOK
  <2> QED BY <2>1 DEF LogFirst, FirstsOnce
<1>2. /\ LogAfter(c, g, table).firsts = LogFirst(c, g, table).firsts
      /\ LogAfter(c, g, table).graduated = LogFirst(c, g, table).graduated
      /\ LogAfter(c, g, table).paid = LogFirst(c, g, table).paid
      /\ LogAfter(c, g, table).complete
           = LogFirst(c, g, table).complete \cup NewlyComplete(c, g, table)
  BY DEF LogAfter, LogFirst
<1>3. ASSUME PaidOnce, NEW id \in Ids
      PROVE  /\ LogFirst(c, g, table).paid[id] <= 1
             /\ id \notin LogAfter(c, g, table).complete => LogFirst(c, g, table).paid[id] = 0
  <2>1. log.paid[id] \in Nat
    BY DEF TypeOK
  <2>2. LogFirst(c, g, table).paid[id]
          = log.paid[id] + IF id \in NewlyComplete(c, g, table) THEN 1 ELSE 0
    BY DEF LogFirst
  <2>3. CASE id \in NewlyComplete(c, g, table)
    BY <1>2, <1>3, <2>1, <2>2, <2>3, NewlyCompleteIs DEF PaidOnce
  <2>4. CASE id \notin NewlyComplete(c, g, table)
    <3>1. LogFirst(c, g, table).paid[id] = log.paid[id]
      BY <2>1, <2>2, <2>4
    <3>2. log.complete \subseteq LogFirst(c, g, table).complete
      BY DEF LogFirst
    <3> QED BY <1>2, <1>3, <3>1, <3>2 DEF PaidOnce
  <2> QED BY <2>3, <2>4
<1> QED BY <1>1, <1>2, <1>3

\* Bonuses are paid once: a verse's in any case, a passage's as long as no
\* answer has been cut short.
THEOREM BonusCorrect ==
  Spec => []((\A v \in Verses : log.firsts[v] <= 1) /\ (kills = 0 => BonusOnce))
<1>1. Init => BonusInv
  BY DEF Init, Blank, BonusInv, FirstsOnce, PaidOnce
<1>2. TypeOK /\ BonusInv /\ [Next]_vars => BonusInv'
  <2> SUFFICES ASSUME TypeOK, BonusInv, [Next]_vars PROVE BonusInv'
    OBVIOUS
  <2>1. ASSUME UNCHANGED <<log, kills>> PROVE BonusInv'
    BY <2>1 DEF BonusInv, FirstsOnce, PaidOnce
  <2>2. ASSUME card # NoCard, NEW g \in GradesOf(card), Answer(g)
        PROVE  BonusInv'
    <3>1. PICK table : log' = LogAfter(card, g, table) /\ kills' = kills
      BY <2>2 DEF Answer, counters
    <3>2. card \in Cards
      BY <2>2 DEF TypeOK
    <3> QED BY <3>1, <3>2, LogAfterOnce DEF BonusInv, FirstsOnce, PaidOnce
  <2>3. ASSUME card # NoCard, NEW g \in GradesOf(card), KilledInAnswer(g)
        PROVE  BonusInv'
    <3>1. PICK table : log' \in {log, LogFirst(card, g, table)}
      BY <2>3 DEF KilledInAnswer
    <3>2. card \in Cards /\ kills' # 0
      BY <2>3 DEF TypeOK, KilledInAnswer
    <3>3. FirstsOnce'
      BY <3>1, <3>2, LogAfterOnce DEF BonusInv, FirstsOnce
    <3> QED BY <3>2, <3>3 DEF BonusInv
  <2> QED BY <2>1, <2>2, <2>3
          DEF Next, Shape, Show, AddPassage, DeletePassage, SetLineStarts, SetSectionStart, Reshape,
              KilledInReshape, ShowItem, ShowRun, DatesCome, vars, answerVars, counters
<1>3. BonusInv => (\A v \in Verses : log.firsts[v] <= 1) /\ (kills = 0 => BonusOnce)
  BY DEF BonusInv, FirstsOnce, PaidOnce, BonusOnce
<1> QED BY <1>1, <1>2, <1>3, TypeCorrect, PTL DEF Spec
=============================================================================
