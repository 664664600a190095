------------------------- MODULE MemorySteps_proofs ------------------------
(***************************************************************************)
(* Lemmas about MemorySteps: how long a verse's script is, where a stored  *)
(* stage falls in it, and what rows the operations on a row return.        *)
(***************************************************************************)
EXTENDS MemorySteps, TLAPS

StepKinds == {"read", "recall", "chain"}

\* A script is as long as its closed form says, and never empty.
LEMMA ScriptLength ==
  ASSUME NEW lines \in Nat \ {0}, NEW first \in BOOLEAN
  PROVE  /\ StepCount(lines, first) \in Nat \ {0}
         /\ StepCount(lines, first) <= LineStepCount(lines) + 1
         /\ LineStepCount(lines) \in Nat \ {0}
         /\ Len(VerseSteps(lines, first)) = StepCount(lines, first)
<1>1. LineStepCount(lines) \in Nat \ {0}
  BY DEF LineStepCount
<1>2. StepCount(lines, first) \in Nat \ {0}
  BY <1>1 DEF StepCount
<1>3. DOMAIN VerseSteps(lines, first) = 1..StepCount(lines, first)
  BY DEF VerseSteps
<1>4. VerseSteps(lines, first) \in Seq({VerseSteps(lines, first)[q] :
                                          q \in 1..StepCount(lines, first)})
  BY <1>2 DEF VerseSteps
<1>5. Len(VerseSteps(lines, first)) = StepCount(lines, first)
  BY <1>2, <1>3, <1>4
<1> QED BY <1>1, <1>2, <1>5 DEF StepCount

\* A number is a multiple of three, or one or two more.
LEMMA ByThrees ==
  ASSUME NEW m \in Nat
  PROVE  m \div 3 \in Nat /\ m % 3 \in {0, 1, 2}
OBVIOUS

\* Every step is a card to read, to recall or to recite in a chain.
LEMMA ScriptKinds ==
  ASSUME NEW lines \in Nat \ {0}, NEW first \in BOOLEAN,
         NEW p \in 0..(StepCount(lines, first) - 1)
  PROVE  /\ VerseSteps(lines, first)[p + 1].kind \in StepKinds
         /\ VerseSteps(lines, first)[p + 1] \in [kind : StepKinds, from : Nat, to : Nat]
<1>1. p + 1 \in 1..StepCount(lines, first)
  BY ScriptLength
<1>2. CASE p + 1 > LineStepCount(lines)
  BY <1>1, <1>2, ScriptLength DEF VerseSteps, Chain, StepKinds
<1>3. CASE p + 1 <= LineStepCount(lines)
  <2>1. VerseSteps(lines, first)[p + 1] = LineStep(p)
    BY <1>1, <1>3, ScriptLength DEF VerseSteps
  <2>2. /\ (p + 1) \div 3 \in Nat
        /\ (p + 1) % 3 \in {0, 1, 2}
    <3>1. p + 1 \in Nat
      BY <1>1, ScriptLength
    <3> QED BY <3>1, ByThrees
  <2>3. LineStep(p) \in [kind : StepKinds, from : Nat, to : Nat]
    BY <2>2 DEF LineStep, Read, Recall, StepKinds
  <2> QED BY <2>1, <2>3
<1> QED BY <1>1, <1>2, <1>3, ScriptLength

\* A forgotten verse comes back in at the last recital of all its lines, one
\* step before the chain if there is one.
LEMMA RelearnPlace ==
  ASSUME NEW lines \in Nat \ {0}, NEW first \in BOOLEAN
  PROVE  /\ RelearnStep(VerseSteps(lines, first), lines)
              \in 0..(StepCount(lines, first) - 1)
         /\ VerseSteps(lines, first)[RelearnStep(VerseSteps(lines, first), lines) + 1]
              = Recall(0, lines - 1)
<1> DEFINE p == 3 * lines - 2
<1>1. p \in 0..(StepCount(lines, first) - 1) /\ p # 0
  BY DEF StepCount, LineStepCount
<1>2. (p + 1) \div 3 = lines - 1 /\ (p + 1) % 3 = 2
  OBVIOUS
<1>3. LineStep(p) = Recall(0, lines - 1)
  BY <1>1, <1>2 DEF LineStep
<1>4. VerseSteps(lines, first)[p + 1] = Recall(0, lines - 1)
  <2>1. p + 1 \in 1..StepCount(lines, first) /\ p + 1 <= LineStepCount(lines)
    BY <1>1, ScriptLength DEF LineStepCount
  <2> QED BY <1>3, <2>1 DEF VerseSteps
<1>5. \E q \in 0..(Len(VerseSteps(lines, first)) - 1) :
        VerseSteps(lines, first)[q + 1] = Recall(0, lines - 1)
  BY <1>1, <1>4, ScriptLength
<1> HIDE DEF p
<1> QED BY <1>5, ScriptLength DEF RelearnStep

\* A stored stage falls on a step of the script, whatever it was stored for.
LEMMA ResolvePlace ==
  ASSUME NEW lines \in Nat \ {0}, NEW first \in BOOLEAN, NEW stage \in Nat
  PROVE  ResolveStep(stage, VerseSteps(lines, first), lines)
           \in 0..(StepCount(lines, first) - 1)
<1>1. Len(VerseSteps(lines, first)) = StepCount(lines, first)
      /\ StepCount(lines, first) \in Nat \ {0}
  BY ScriptLength
<1>2. CASE stage = Relearn
  BY <1>2, RelearnPlace DEF ResolveStep
<1>3. CASE stage # Relearn
  BY <1>1, <1>3 DEF ResolveStep
<1> QED BY <1>2, <1>3

-----------------------------------------------------------------------------
(* Rows *)

\* A row that was graded is a row of a verse of as many lines.
LEMMA MovedType ==
  ASSUME NEW n \in Nat \ {0}, NEW lines \in 1..n, NEW first \in BOOLEAN,
         NEW row \in VerseRows(n), NEW kind, NEW grade,
         NEW step \in 0..(StepCount(lines, first) - 1)
  PROVE  Moved(row, NextStep(kind, grade, step), VerseSteps(lines, first)) \in VerseRows(n)
<1> DEFINE next == NextStep(kind, grade, step)
<1>1. next \in Nat
  BY ScriptLength DEF NextStep
<1>2. Len(VerseSteps(lines, first)) <= LineStepCount(n) + 1
      /\ Len(VerseSteps(lines, first)) \in Nat
  BY ScriptLength DEF StepCount, LineStepCount
<1>3. LineStepCount(n) \in Nat
  BY DEF LineStepCount
<1>4. CASE next >= Len(VerseSteps(lines, first))
  BY <1>4 DEF Moved, Row, VerseRows
<1>5. CASE ~(next >= Len(VerseSteps(lines, first)))
  <2>1. next \in 0..LineStepCount(n)
    BY <1>1, <1>2, <1>3, <1>5
  <2>2. Moved(row, next, VerseSteps(lines, first)) = [row EXCEPT !.stage = next]
    BY <1>5 DEF Moved
  <2> HIDE DEF next
  <2>3. [row EXCEPT !.stage = next] \in VerseRows(n)
    BY <2>1 DEF VerseRows
  <2> QED BY <2>2, <2>3 DEF next
<1> QED BY <1>4, <1>5

\* So are a row that was reviewed, one that was restarted, and a new one.
LEMMA RowTypes ==
  ASSUME NEW n \in Nat \ {0}
  PROVE  /\ NewRow \in VerseRows(n)
         /\ \A row \in VerseRows(n), grade \in GradeKinds : Reviewed(row, grade) \in VerseRows(n)
         /\ \A row \in VerseRows(n) : Restarted(row) \in VerseRows(n)
<1>1. 0 \in 0..LineStepCount(n)
  BY DEF LineStepCount
<1> QED BY <1>1 DEF NewRow, Row, VerseRows, Reviewed, Restarted

\* Only a graduation makes a verse learnt that was not.
LEMMA MovedLearnt ==
  ASSUME NEW row, NEW next, NEW steps, row.learnt = FALSE,
         row = [stage |-> row.stage, learnt |-> row.learnt, due |-> row.due, been |-> row.been]
  PROVE  Moved(row, next, steps).learnt <=> next >= Len(steps)
BY DEF Moved, Row
=============================================================================
