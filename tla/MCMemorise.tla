---------------------------- MODULE MCMemorise -----------------------------
(* Small instances of Memorise. *)
EXTENDS Memorise, SequencesExt

Unshaped == [lines |-> 0, opens |-> FALSE]
OneLine == [lines |-> 1, opens |-> FALSE]
ShapedOrNot == {Unshaped, OneLine}
AllOneLine == {OneLine}

\* verse_steps as the loop builds it, the reference for the closed form.
LoopSteps(lines, firstInSection) ==
  FlattenSeq([n \in 1..lines |->
    <<Read(n - 1), Recall(n - 1, n - 1)>> \o IF n > 1 THEN <<Recall(0, n - 1)>> ELSE <<>>])
  \o IF firstInSection THEN <<>> ELSE <<Chain>>
ASSUME LoopStepsAgree ==
  \A lines \in 1..12, first \in BOOLEAN : VerseSteps(lines, first) = LoopSteps(lines, first)
=============================================================================
