------------------------------ MODULE Memorise -----------------------------
(***************************************************************************)
(* Learning passages by heart on one device (memorise.rs): the learner     *)
(* adds and deletes passages, shapes their verses into lines and sections, *)
(* is shown the next card and answers it, late or twice if it so happens.  *)
(* Each call is several statements that commit by themselves, and the app  *)
(* can be killed between two of them.                                      *)
(*                                                                         *)
(* A verse is its number.  A passage's id is its place in the listing,     *)
(* newest first; a new one takes any place, for clocks are set back and    *)
(* two passages can share a second.  `earned` is a ghost: the steps that   *)
(* the learner passed since the verse was last given a new shape.          *)
(***************************************************************************)
EXTENDS MemorySteps, FiniteSets, FiniteSetsExt

CONSTANTS Verses,          \* the verses in play, a set of numbers
          Ids,             \* the places a passage can take in the listing
          Scopes,          \* what cards are asked for: passages, or All
          All,             \* every live passage (an empty passage_id)
          NoPassage, NoCard,
          Grades,          \* the grades in play
          MaxLines,        \* bound: lines in a verse
          FirstShapes,     \* shapes the verses had before
          MaxEdits,        \* bound: passages added or deleted, verses reshaped
          MaxDays,         \* bound: times that dates come
          MaxKills,        \* bound: answers cut short
          MaxCutEdits      \* bound: reshapings cut short

ASSUME MemoriseAssumption ==
  /\ Verses \subseteq Nat /\ IsFiniteSet(Verses)
  /\ Ids \subseteq Nat /\ IsFiniteSet(Ids)
  /\ All \notin Ids /\ NoPassage \notin [first : Verses, last : Verses, live : BOOLEAN]
  /\ NoRow \notin VerseRows(MaxLines)
  /\ Scopes \subseteq Ids \cup {All}
  /\ Grades \subseteq GradeKinds
  /\ MaxLines \in 1..84          \* the longest script stays below RELEARN_STAGE
  /\ FirstShapes \subseteq [lines : 0..MaxLines, opens : BOOLEAN]
  /\ MaxEdits \in Nat /\ MaxDays \in Nat
  /\ MaxKills \in Nat /\ MaxCutEdits \in Nat

VARIABLES passages,        \* memory_passage
          layout,          \* memory_layout; no lines: not shaped yet
          rows,            \* memory_verse
          run,             \* memory_passage_run, by passage
          log,             \* memory_review, its graduations and bonuses
          card,            \* the card on the screen, answered or not
          edits, days, kills, cutEdits,
          earned           \* ghost

vars == <<passages, layout, rows, run, log, card,
          edits, days, kills, cutEdits, earned>>
shapeVars == <<passages, layout>>
answerVars == <<rows, run, log>>
counters == <<edits, days, kills, cutEdits>>

Shapes == [lines : 0..MaxLines, opens : BOOLEAN]

-----------------------------------------------------------------------------
(* Passages and their plans *)

Live(id) == passages[id] # NoPassage /\ passages[id].live
VersesOf(id) == {v \in Verses : passages[id].first <= v /\ v <= passages[id].last}

\* memory_layout as memory_plan reads it: an unshaped verse is one line.
Lines(v) == IF layout[v].lines = 0 THEN 1 ELSE layout[v].lines
Opens(id, v) == v = passages[id].first \/ layout[v].opens
SectionStart(id, v) == Max({w \in VersesOf(id) : w <= v /\ Opens(id, w)})
Section(id, v) == {w \in VersesOf(id) : SectionStart(id, w) = SectionStart(id, v)}
Ready(id, v) == \A w \in Section(id, v) : layout[w].lines # 0
Script == [lines \in 1..MaxLines |-> [first \in BOOLEAN |-> VerseSteps(lines, first)]]
Steps(id, v) == Script[Lines(v)][Opens(id, v)]

Scope(scope) == IF scope = All THEN {id \in Ids : Live(id)}
                               ELSE {id \in {scope} : Live(id)}

\* memory_passage_for: the first passage in scope that holds the verse.
PassageFor(scope, v) == Min({id \in Scope(scope) : v \in VersesOf(id)})

Known(id, table) == {v \in VersesOf(id) : Learnt(table[v])}
CompletedIds(table) == {id \in Ids : Live(id) /\ Known(id, table) = VersesOf(id)}

\* The step a verse is at: the first, if it is not begun.
CurrentStep(id, v) ==
  IF rows[v] = NoRow THEN 0 ELSE ResolveStep(rows[v].stage, Steps(id, v), Lines(v))

-----------------------------------------------------------------------------
(* next_memory_item *)

CardKinds == {"read", "recall", "chain", "review", "run"}
Cards == [scope : Ids \cup {All}, purpose : CardKinds, verse : Verses,
          step : 0..Relearn, covers : SUBSET Verses]

RecitalCard(scope, purpose, vs) ==
  [scope |-> scope, purpose |-> purpose, verse |-> Min(vs), step |-> 0, covers |-> vs]

StepCard(scope, id, v, step) ==
  LET kind == Steps(id, v)[step + 1].kind
  IN  [scope |-> scope, purpose |-> kind, verse |-> v, step |-> step,
       covers |-> IF kind = "chain"
                  THEN {w \in VersesOf(id) : SectionStart(id, v) <= w /\ w <= v}
                  ELSE {v}]

\* Sections with a verse whose date has come, by the verse that opens them.
DueSections(id) ==
  {SectionStart(id, v) : v \in {w \in VersesOf(id) : Due(rows[w])}}
DueRun(id) ==
  /\ run[id] = "due"
  /\ Cardinality({SectionStart(id, v) : v \in Known(id, rows)}) >= 2

\* The first verse not learnt is next; one that is not begun waits for the
\* shape of its section, and the passage with it.
Unlearnt(id) == VersesOf(id) \ Known(id, rows)
Teachable(id, v) == rows[v] # NoRow \/ Ready(id, v)
First(S) == {x \in S : \A y \in S : x <= y}

\* Mutant: a verse whose section is not shaped is passed over.
LessonSkipping(id) == First({v \in Unlearnt(id) : Teachable(id, v)})

\* Mutant: a verse already begun waits for its shape as well.
LessonShaped(id) == {v \in First(Unlearnt(id)) : Ready(id, v)}

Lesson(id) == {v \in First(Unlearnt(id)) : Teachable(id, v)}

\* next_memory_item, as the set that holds the next card, or nothing.  Reviews
\* come first, then a run of the passage so far, then learning.  A verse not
\* begun yet needs room in the day's ration, or an extra_new that asks for one
\* anyway: `room` says whether there is either.
NextItem(scope, room) ==
  LET reviews == {id \in Scope(scope) : DueSections(id) # {}}
      runs    == {id \in Scope(scope) : DueRun(id)}
      lessons == {id \in Scope(scope) : Lesson(id) # {}}
  IN  IF reviews # {}
      THEN UNION {{RecitalCard(scope, "review", Section(id, v) \cap Known(id, rows)) :
                     v \in First(DueSections(id))} : id \in First(reviews)}
      ELSE IF runs # {}
      THEN {RecitalCard(scope, "run", Known(id, rows)) : id \in First(runs)}
      ELSE UNION {{StepCard(scope, id, v, CurrentStep(id, v)) :
                     v \in {w \in Lesson(id) : rows[w] # NoRow \/ room}} : id \in First(lessons)}

-----------------------------------------------------------------------------
(* submit_memory_recital, for a card c and a grade g[v] of every verse on it *)

IsLearning(c) == c.purpose \in {"read", "recall", "chain"}

\* Mutant: a stale step is taken as well.
AcceptsStale(c) ==
  IsLearning(c) =>
    /\ \E id \in Scope(c.scope) : c.verse \in VersesOf(id)
    /\ ~Learnt(rows[c.verse])

\* Mutant: the stored stage is compared as it is.
AcceptsUnresolved(c) ==
  IsLearning(c) =>
    /\ \E id \in Scope(c.scope) : c.verse \in VersesOf(id)
    /\ ~Learnt(rows[c.verse])
    /\ IF rows[c.verse] = NoRow THEN c.step = 0 ELSE c.step = rows[c.verse].stage

\* A step is taken if the verse still is at it, in the passage it is found in.
Accepts(c) ==
  IsLearning(c) =>
    /\ \E id \in Scope(c.scope) : c.verse \in VersesOf(id)
    /\ ~Learnt(rows[c.verse])
    /\ CurrentStep(PassageFor(c.scope, c.verse), c.verse) = c.step

StepsOf(c) == Steps(PassageFor(c.scope, c.verse), c.verse)
Target(c, g) ==
  Moved(IF rows[c.verse] = NoRow THEN NewRow ELSE rows[c.verse],
        NextStep(c.purpose, g[c.verse], c.step), StepsOf(c))
Graduates(c, g) == IsLearning(c) /\ Target(c, g).learnt

\* The verse rows once the target is written, and the verses of done reviewed.
RowsAfter(c, g, done) ==
  [v \in Verses |->
     IF IsLearning(c) /\ v = c.verse THEN Target(c, g)
     ELSE IF v \in done /\ Learnt(rows[v]) THEN Reviewed(rows[v], g[v]) ELSE rows[v]]

\* A section that is complete and joins verses learnt before it: the passage so
\* far is due.  A run dates the next one later.
RunPassage(c) ==
  IF c.scope # All /\ Live(c.scope) THEN {c.scope}
  ELSE {id \in Scope(All) : c.verse \in VersesOf(id)}
RunAfter(c, g, table) ==
  IF Graduates(c, g)
  THEN LET id == PassageFor(c.scope, c.verse)
       IN  IF /\ Section(id, c.verse) \subseteq Known(id, table)
              /\ \E w \in Known(id, table) : w < SectionStart(id, c.verse)
           THEN [run EXCEPT ![id] = "due"] ELSE run
  ELSE IF c.purpose = "run" /\ RunPassage(c) # {}
       THEN [run EXCEPT ![Min(RunPassage(c))] = "later"] ELSE run

\* Mutant: the log is not asked.
NewlyCompleteAgain(c, g, table) ==
  IF Graduates(c, g) THEN CompletedIds(table) \ CompletedIds(rows) ELSE {}

\* Passages complete only now, and never before as far as the log knows.
NewlyComplete(c, g, table) ==
  IF Graduates(c, g)
  THEN {id \in CompletedIds(table) : id \notin CompletedIds(rows) /\ id \notin log.complete}
  ELSE {}

\* The card's first row of the log: its bonuses ride on it, and the tag of the
\* first passage completed.  Other passages get a row each after it.
LogFirst(c, g, table) ==
  LET new == NewlyComplete(c, g, table)
  IN  [paid      |-> [id \in Ids |-> log.paid[id] + IF id \in new THEN 1 ELSE 0],
       complete  |-> log.complete \cup IF new = {} THEN {} ELSE {Min(new)},
       firsts    |-> [v \in Verses |-> log.firsts[v] +
                        IF v = c.verse /\ Graduates(c, g) /\ v \notin log.graduated
                        THEN 1 ELSE 0],
       graduated |-> log.graduated \cup IF Graduates(c, g) THEN {c.verse} ELSE {}]
LogAfter(c, g, table) ==
  [LogFirst(c, g, table) EXCEPT !.complete = @ \cup NewlyComplete(c, g, table)]

\* The ghost: a verse forgotten at review is vouched for up to its recital.
EarnedBefore(c) ==
  IF rows[c.verse] # NoRow /\ rows[c.verse].stage = Relearn
  THEN {StepsOf(c)[q] : q \in 1..c.step} ELSE earned[c.verse]
EarnedAfter(c, g) ==
  IF ~IsLearning(c) THEN earned
  ELSE [earned EXCEPT ![c.verse] = EarnedBefore(c) \cup
          IF c.purpose = "read" \/ Well(g[c.verse]) THEN {StepsOf(c)[c.step + 1]} ELSE {}]

-----------------------------------------------------------------------------
(* Actions *)

Blank == [paid |-> [id \in Ids |-> 0], complete |-> {},
          firsts |-> [v \in Verses |-> 0], graduated |-> {}]

Init ==
  /\ passages = [id \in Ids |-> NoPassage]
  /\ layout \in [Verses -> FirstShapes]  \* shaped before, for another passage
  /\ rows = [v \in Verses |-> NoRow]
  /\ run = [id \in Ids |-> "none"]
  /\ log = Blank
  /\ card = NoCard
  /\ edits = 0 /\ days = 0 /\ kills = 0 /\ cutEdits = 0
  /\ earned = [v \in Verses |-> {}]

Edit == edits < MaxEdits /\ edits' = edits + 1

\* add_memory_passage; a live one of the same range is returned instead.
AddPassage(id, first, last) ==
  /\ Edit
  /\ passages[id] = NoPassage
  /\ first <= last
  /\ ~\E other \in Ids : Live(other) /\ passages[other].first = first
                                     /\ passages[other].last = last
  /\ passages' = [passages EXCEPT ![id] = [first |-> first, last |-> last, live |-> TRUE]]
  /\ UNCHANGED <<layout, answerVars, card, days, kills, cutEdits, earned>>

DeletePassage(id) ==
  /\ Edit
  /\ Live(id)
  /\ passages' = [passages EXCEPT ![id].live = FALSE]
  /\ UNCHANGED <<layout, answerVars, card, days, kills, cutEdits, earned>>

LineCount(lines) == IF lines = 0 THEN 1 ELSE lines      \* stored_line_count
NewScript(v, shape) ==
  LineCount(shape.lines) # Lines(v) \/ shape.opens # layout[v].opens

\* What set_memory_line_starts and set_memory_section_start share: the layout,
\* and the verse's steps started over if the call finds them to be others now.
Reshape(v, shape, restart) ==
  /\ Edit
  /\ shape # layout[v]
  /\ layout' = [layout EXCEPT ![v] = shape]
  /\ rows' = IF restart THEN [rows EXCEPT ![v] = Restarted(@)] ELSE rows
  /\ earned' = IF NewScript(v, shape) THEN [earned EXCEPT ![v] = {}] ELSE earned
  /\ UNCHANGED <<passages, run, log, card, days, kills, cutEdits>>

\* Mutant: the steps start over only when lines are added.
SetLineStartsGrowing(v, lines) ==
  Reshape(v, [layout[v] EXCEPT !.lines = lines], LineCount(lines) > Lines(v))

SetLineStarts(v, lines) ==
  Reshape(v, [layout[v] EXCEPT !.lines = lines], LineCount(lines) # Lines(v))

SetSectionStart(v, opens) ==
  Reshape(v, [layout[v] EXCEPT !.opens = opens], opens # layout[v].opens)

\* The app is killed with the layout stored and the steps not started over.
KilledInReshape(v, shape) ==
  /\ cutEdits < MaxCutEdits
  /\ cutEdits' = cutEdits + 1
  /\ Edit
  /\ NewScript(v, shape)
  /\ shape.lines = layout[v].lines \/ shape.opens = layout[v].opens
  /\ layout' = [layout EXCEPT ![v] = shape]
  /\ earned' = [earned EXCEPT ![v] = {}]
  /\ UNCHANGED <<passages, answerVars, card, days, kills>>

\* next_memory_item puts a card on the screen.
ShowItem(scope, room) ==
  /\ \E item \in NextItem(scope, room) : card' = item
  /\ UNCHANGED <<shapeVars, answerVars, counters, earned>>

\* memory_run_card: a run asked for, due or not.
ShowRun(id) ==
  /\ Live(id) /\ Known(id, rows) # {}
  /\ card' = RecitalCard(id, "run", Known(id, rows))
  /\ UNCHANGED <<shapeVars, answerVars, counters, earned>>

GradesOf(c) == [c.covers -> Grades]

\* The card on the screen is answered, perhaps not for the first time.
Answer(g) ==
  /\ Accepts(card)
  /\ LET table == RowsAfter(card, g, card.covers)
     IN  /\ rows' = table
         /\ run' = RunAfter(card, g, table)
         /\ log' = LogAfter(card, g, table)
  /\ earned' = EarnedAfter(card, g)
  /\ UNCHANGED <<shapeVars, card, counters>>

\* The same, cut short: some rows are written; or all of them and the run; or
\* the first row of the log too.
KilledInAnswer(g) ==
  /\ kills < MaxKills
  /\ kills' = kills + 1
  /\ Accepts(card)
  /\ earned' = EarnedAfter(card, g)
  /\ \/ \E done \in SUBSET card.covers : rows' = RowsAfter(card, g, done)
        /\ UNCHANGED <<run, log>>
     \/ /\ rows' = RowsAfter(card, g, card.covers)
        /\ run' = RunAfter(card, g, rows')
        /\ log' \in {log, LogFirst(card, g, rows')}
  /\ UNCHANGED <<shapeVars, card, edits, days, cutEdits>>

\* Time passes: the dates of some learnt verses and runs come, in any order.
DatesCome(vs, ids) ==
  /\ days < MaxDays
  /\ days' = days + 1
  /\ rows' = [v \in Verses |-> IF v \in vs THEN [rows[v] EXCEPT !.due = TRUE] ELSE rows[v]]
  /\ run' = [id \in Ids |-> IF id \in ids THEN "due" ELSE run[id]]
  /\ UNCHANGED <<shapeVars, log, card, edits, kills, cutEdits, earned>>

Shape ==
  \/ \E id \in Ids : DeletePassage(id) \/ \E a, b \in Verses : AddPassage(id, a, b)
  \/ \E v \in Verses :
       \/ \E lines \in 0..MaxLines : SetLineStarts(v, lines)
       \/ \E opens \in BOOLEAN : SetSectionStart(v, opens)
       \/ \E shape \in Shapes : KilledInReshape(v, shape)

Show ==
  \/ \E scope \in Scopes, room \in BOOLEAN : ShowItem(scope, room)
  \/ \E id \in Scopes \ {All} : ShowRun(id)

Next ==
  \/ Shape
  \/ Show
  \/ card # NoCard /\ \E g \in GradesOf(card) : Answer(g) \/ KilledInAnswer(g)
  \/ \E vs \in SUBSET {v \in Verses : Learnt(rows[v])},
        ids \in SUBSET {id \in Ids : run[id] = "later"} : DatesCome(vs, ids)

Spec == Init /\ [][Next]_vars

\* A learner who practises keeps asking for the next card, a new one too, and
\* does not leave every card of a scope unanswered; Falters is a recital that
\* did not go well.
AnswerOf(scope) ==
  /\ card # NoCard
  /\ card.scope = scope
  /\ \E g \in GradesOf(card) : Answer(g)
Falters ==
  /\ card # NoCard /\ card.purpose # "read"
  /\ \E g \in GradesOf(card) : (\E v \in card.covers : ~Well(g[v])) /\ Answer(g)
Practice ==
  \A scope \in Scopes : WF_vars(ShowItem(scope, TRUE)) /\ SF_vars(AnswerOf(scope))
FairSpec == Spec /\ Practice

-----------------------------------------------------------------------------
(* Properties *)

\* The type invariant.
TypeOK ==
  /\ passages \in [Ids -> [first : Verses, last : Verses, live : BOOLEAN] \cup {NoPassage}]
  /\ layout \in [Verses -> Shapes]
  /\ rows \in [Verses -> VerseRows(MaxLines) \cup {NoRow}]
  /\ run \in [Ids -> {"none", "due", "later"}]
  /\ log \in [paid : [Ids -> Nat], complete : SUBSET Ids,
              firsts : [Verses -> Nat], graduated : SUBSET Verses]
  /\ card \in Cards \cup {NoCard}
  /\ edits \in 0..MaxEdits /\ days \in 0..MaxDays
  /\ kills \in 0..MaxKills /\ cutEdits \in 0..MaxCutEdits
  /\ earned \in [Verses -> SUBSET [kind : CardKinds, from : Nat, to : Nat]]

\* Learning never jumps about: a verse that was ever begun belongs to a passage,
\* kept or deleted, every earlier verse of which has been learnt.
StartedInOrder ==
  \A v \in Verses : rows[v] # NoRow =>
    \E id \in Ids :
      /\ passages[id] # NoPassage /\ v \in VersesOf(id)
      /\ \A w \in VersesOf(id) : w < v => rows[w] # NoRow /\ rows[w].been

\* A stage is a place in the script of the verse's shape: every step behind it
\* was passed since the verse got that shape, in every passage that holds it.
StepsEarned ==
  \A v \in Verses, id \in Ids :
    /\ Live(id) /\ v \in VersesOf(id)
    /\ rows[v] # NoRow /\ ~Learnt(rows[v]) /\ rows[v].stage # Relearn
    => \A q \in 1..ResolveStep(rows[v].stage, Steps(id, v), Lines(v)) :
         Steps(id, v)[q] \in earned[v]

\* A verse is learnt only through every step of its script: read, recalled line
\* by line and whole, and in a section recited from its first verse.
LearntThroughEveryStep ==
  [][\A v \in Verses : ~Learnt(rows[v]) /\ Learnt(rows'[v]) =>
       \E id \in Ids : /\ Live(id) /\ v \in VersesOf(id)
                       /\ \A q \in 1..Len(Steps(id, v)) : Steps(id, v)[q] \in earned'[v]]_vars

\* A passage's completion bonus and a verse's graduation bonus are paid once,
\* however often they lapse and whichever passages share them.
BonusOnce ==
  /\ \A id \in Ids : log.paid[id] <= 1
  /\ \A v \in Verses : log.firsts[v] <= 1

\* A learner who practises, and from some time on recites well, comes to have
\* learnt every verse of every live passage, up to the first that is not begun
\* and waits for the shape of its section; whatever was reshaped, deleted,
\* forgotten, answered twice or cut short on the way.
WaitsForShape(id, v) ==
  \E w \in VersesOf(id) : w <= v /\ rows[w] = NoRow /\ ~Ready(id, w)
AllLearnt ==
  \A id \in Scopes : Live(id) =>
    \A v \in VersesOf(id) : Learnt(rows[v]) \/ WaitsForShape(id, v)
PracticeTeaches == <>[][~Falters]_vars => <>[]AllLearnt

\* Only an answer given late or twice is ignored: the answer to the card of
\* this very moment counts, if all live passages that hold its verse agree on
\* whether it begins a section.  Where they do not, the card is cut for one
\* passage and judged by another, and can be answered in vain for ever.
Alike(v) ==
  \A a, b \in Ids : Live(a) /\ Live(b) /\ v \in VersesOf(a) \cap VersesOf(b) =>
    Opens(a, v) = Opens(b, v)
NextCardCounts ==
  \A scope \in Scopes : \A c \in NextItem(scope, TRUE) : Alike(c.verse) => Accepts(c)
=============================================================================
