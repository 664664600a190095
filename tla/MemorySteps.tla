---------------------------- MODULE MemorySteps ----------------------------
(***************************************************************************)
(* What a verse is put through while it is learnt by heart: the learning   *)
(* script of crates/haqor-core/src/memorise.rs, the place of a stored      *)
(* stage in it, and how an answer moves a verse on.  An interval is only   *)
(* told apart as none (the verse is not learnt) or some; whether a learnt  *)
(* verse's date has come is its `due`.  Steps are numbered from 0 as in    *)
(* the code, and a script is a sequence, numbered from 1.                  *)
(***************************************************************************)
EXTENDS Integers, Sequences

CONSTANT NoRow             \* a verse that memory_verse has no row for

Relearn == 255             \* RELEARN_STAGE
GradeKinds == {"again", "hard", "good", "easy"}
Well(grade) == grade \in {"good", "easy"}

Read(k) == [kind |-> "read", from |-> k, to |-> k]
Recall(a, b) == [kind |-> "recall", from |-> a, to |-> b]
Chain == [kind |-> "chain", from |-> 0, to |-> 0]

\* verse_steps: every line is read, recalled, and recalled with all before it
\* (for the first line that is the same recital, and comes once); the section
\* up to the verse comes last, unless the verse begins it.
LineStep(p) ==
  LET k == (p + 1) \div 3
  IN  IF p = 0 THEN Read(0)
      ELSE CASE (p + 1) % 3 = 0 -> Read(k)
             [] (p + 1) % 3 = 1 -> Recall(k, k)
             [] (p + 1) % 3 = 2 -> Recall(0, k)
LineStepCount(lines) == 3 * lines - 1
StepCount(lines, firstInSection) ==
  IF firstInSection THEN LineStepCount(lines) ELSE LineStepCount(lines) + 1
VerseSteps(lines, firstInSection) ==
  [q \in 1..StepCount(lines, firstInSection) |->
     IF q <= LineStepCount(lines) THEN LineStep(q - 1) ELSE Chain]

\* Where a forgotten verse comes back in: the recital of all its lines.
RelearnStep(steps, lines) ==
  CHOOSE p \in 0..(Len(steps) - 1) : steps[p + 1] = Recall(0, lines - 1)

\* The step a stored stage stands for, the verse's shape having perhaps
\* changed since.
ResolveStep(stage, steps, lines) ==
  IF stage = Relearn THEN RelearnStep(steps, lines)
  ELSE IF stage < Len(steps) THEN stage ELSE Len(steps) - 1

\* A row of memory_verse: `been` says that reps > 0, it has been learnt once.
Row(stage, learnt, due, been) ==
  [stage |-> stage, learnt |-> learnt, due |-> due, been |-> been]
NewRow == Row(0, FALSE, FALSE, FALSE)
\* The rows of verses of at most n lines: no stage is taken for RELEARN_STAGE.
VerseRows(n) == [stage : 0..(LineStepCount(n)) \cup {Relearn},
                 learnt : BOOLEAN, due : BOOLEAN, been : BOOLEAN]
Learnt(row) == row # NoRow /\ row.learnt
Due(row) == Learnt(row) /\ row.due

\* The step after `step`: reading moves on, a recital by its grade.
NextStep(kind, grade, step) ==
  IF kind = "read" \/ Well(grade) THEN step + 1
  ELSE IF grade = "again" /\ step > 0 THEN step - 1 ELSE step

\* Mutant: the stage runs past the script when a verse graduates.
MovedPastTheLast(row, next, steps) ==
  IF next >= Len(steps) THEN Row(next, TRUE, FALSE, TRUE)
                        ELSE [row EXCEPT !.stage = next]

\* graduate, or the stage moved; the stage of a learnt verse is not read.
Moved(row, next, steps) ==
  IF next >= Len(steps) THEN Row(row.stage, TRUE, FALSE, TRUE)
                        ELSE [row EXCEPT !.stage = next]

\* reviewed: a lapse sends the verse back into learning, anything else dates
\* it later, or (recited early) leaves its date alone.
Reviewed(row, grade) ==
  IF grade = "again" THEN Row(Relearn, FALSE, FALSE, row.been)
                     ELSE [row EXCEPT !.due = FALSE]

\* The stage after restart_memory_steps: only a verse in its steps starts over.
Restarted(row) ==
  IF row = NoRow \/ Learnt(row) \/ row.stage = Relearn THEN row
                                                       ELSE [row EXCEPT !.stage = 0]
=============================================================================
