----------------------------- MODULE TutorMerge ----------------------------
(***************************************************************************)
(* The tutor's part of a merge: merge_attached_snapshot and                *)
(* apply_tutor_reset of crates/haqor-core/src/progress_sync.rs on the      *)
(* spaced-repetition tables, the activity log and the one-time concepts.   *)
(*                                                                         *)
(* A tutor state is a record:                                              *)
(*   cards : card -> [rev, reps, val], or NoCard if it was never graded;   *)
(*           rev is updated_epoch, val stands for the other SM-2 columns   *)
(*   log   : <<epoch, track, grade>> -> how many rows of `reviews` read so *)
(*   seen  : concept -> the epoch it was introduced at, or Unseen          *)
(*   reset : the meta value tutor.reset_epoch, 0 without one               *)
(* introduced_epoch, which a merge keeps from the local row, and the       *)
(* intro.* counters are left out.                                          *)
(***************************************************************************)
EXTENDS Integers

CONSTANT NoCard        \* the value of a card without a row

Unseen == -1

CardRows(Vals) == [rev : Nat, reps : Nat, val : Vals]

ASSUME NoCardAssumption == NoCard \notin CardRows(Nat)

LaterReset(a, b) == IF a.reset >= b.reset THEN a.reset ELSE b.reset

\* Mutant: the second of the reset goes with it.
StrictlyAfter(s, reset) ==
  [cards |-> [c \in DOMAIN s.cards |->
                IF s.cards[c] # NoCard /\ s.cards[c].rev <= reset
                THEN NoCard ELSE s.cards[c]],
   log   |-> [a \in DOMAIN s.log |-> IF a[1] <= reset THEN 0 ELSE s.log[a]],
   seen  |-> [k \in DOMAIN s.seen |-> IF s.seen[k] <= reset THEN Unseen ELSE s.seen[k]],
   reset |-> reset]

\* The DELETEs of apply_tutor_reset: nothing dated before the reset stays.
Surviving(s, reset) ==
  [cards |-> [c \in DOMAIN s.cards |->
                IF s.cards[c] # NoCard /\ s.cards[c].rev < reset
                THEN NoCard ELSE s.cards[c]],
   log   |-> [a \in DOMAIN s.log |-> IF a[1] < reset THEN 0 ELSE s.log[a]],
   seen  |-> [k \in DOMAIN s.seen |-> IF s.seen[k] < reset THEN Unseen ELSE s.seen[k]],
   reset |-> reset]

\* Mutant: no tie-break on the repetitions.
IsNewerCard(in, loc) == in.rev > loc.rev

\* The WHERE clause of the four *_srs upserts.
OutranksCard(in, loc) ==
  in.rev > loc.rev \/ (in.rev = loc.rev /\ in.reps > loc.reps)

MergeCard(loc, in) ==
  IF in = NoCard THEN loc
  ELSE IF loc = NoCard \/ OutranksCard(in, loc) THEN in
  ELSE loc

\* INSERT .. WHERE NOT EXISTS an equal row: all of the incoming duplicates
\* when there is no equal row here, none of them when there is one.
MergeCount(loc, in) == IF loc = 0 THEN in ELSE loc

\* ON CONFLICT DO UPDATE SET introduced_epoch = MIN(..).
MergeEpoch(loc, in) ==
  IF loc = Unseen THEN in
  ELSE IF in = Unseen \/ loc <= in THEN loc
  ELSE in

\* The union of two states that a reset has been applied to.
UnionTutor(loc, in) ==
  [cards |-> [c \in DOMAIN loc.cards |-> MergeCard(loc.cards[c], in.cards[c])],
   log   |-> [a \in DOMAIN loc.log |-> MergeCount(loc.log[a], in.log[a])],
   seen  |-> [k \in DOMAIN loc.seen |-> MergeEpoch(loc.seen[k], in.seen[k])],
   reset |-> loc.reset]

\* Mutant: the reset is applied to the local side only.
MergeUnresetTutor(local, incoming) ==
  LET reset == LaterReset(local, incoming)
  IN  UnionTutor(Surviving(local, reset), incoming)

\* The whole merge of the tutor's tables.
MergeTutor(local, incoming) ==
  LET reset == LaterReset(local, incoming)
  IN  UnionTutor(Surviving(local, reset), Surviving(incoming, reset))
=============================================================================
