----------------------------- MODULE TutorSync -----------------------------
(***************************************************************************)
(* The tutor's progress on several devices that synchronise through the    *)
(* LAN server: cards are graded, seeded as known at onboarding, concepts   *)
(* are explained once, and the learner may reset the tutor on any device   *)
(* (crates/haqor-core/src/tutor.rs).  Every statement of a reset commits   *)
(* by itself and the app can be killed between two of them.                *)
(*                                                                         *)
(* Whatever is dated takes its date from its device's wall clock, any      *)
(* value of Epochs at any time.  `history` is a ghost as in DocumentSync;  *)
(* `wiped` remembers the card rows that each device's resets removed.      *)
(***************************************************************************)
EXTENDS TutorMerge, SnapshotRounds

CONSTANTS Glyphs, Words,   \* the cards in play, by track
          Concepts,        \* one-time explanations in play
          Grades,          \* the grades in play
          MaxEpoch,        \* bound: wall clocks read 1..MaxEpoch
          MaxWrites,       \* bound: gradings, seedings, explanations, on all devices
          MaxResets,       \* bound: tutor resets, over all devices
          MaxKills         \* bound: how many of them may be cut short

ASSUME TutorAssumption ==
  /\ Grades \subseteq {"again", "hard", "good", "easy"}
  /\ MaxEpoch \in Nat \ {0} /\ MaxWrites \in Nat
  /\ MaxResets \in Nat /\ MaxKills \in Nat

VARIABLES db,              \* the tutor's part of each device's progress.db
          server,          \* and of the server's canonical one
          writes,          \* gradings, seedings and explanations so far
          resets, kills,   \* resets begun, and cut short
          history,         \* ghost: the writes each write stands upon
          wiped            \* ghost: <<card, row>> pairs each device reset away

vars == <<db, server, round, wire, writes, resets, kills, history, wiped>>
syncVars == <<server, round, wire>>
counters == <<writes, resets, kills>>
ghosts == <<history, wiped>>

Cards == Glyphs \cup Words
Epochs == 1..MaxEpoch
Writes == 1..MaxWrites
LearnSteps == 2        \* LEARN_STEPS_MIN.len()
SeededReps == 3        \* seeded_known_srs().reps

Rows == CardRows(Writes)
Answers == Epochs \X {"glyph", "word"} \X Grades
States == [cards : [Cards -> Rows \cup {NoCard}],
           log   : [Answers -> Nat],
           seen  : [Concepts -> Epochs \cup {Unseen}],
           reset : Nat]

Blank == [cards |-> [c \in Cards |-> NoCard],
          log   |-> [a \in Answers |-> 0],
          seen  |-> [k \in Concepts |-> Unseen],
          reset |-> 0]

HistoryOf(c, row) == IF row = NoCard THEN {} ELSE history[c][row.val]

Init ==
  /\ db = [d \in Devices |-> Blank]
  /\ server = Blank
  /\ writes = 0 /\ resets = 0 /\ kills = 0
  /\ history = [c \in Cards |-> [w \in Writes |-> {}]]
  /\ wiped = [d \in Devices |-> {}]
  /\ RoundsInit

-----------------------------------------------------------------------------
(* The learner at a device *)

\* The book-keeping of a write to the cards cs of d.
RecordWrite(d, cs) ==
  /\ writes < MaxWrites
  /\ writes' = writes + 1
  /\ history' = [c \in Cards |->
       IF c \in cs
       THEN [history[c] EXCEPT ![writes + 1] =
               HistoryOf(c, db[d].cards[c]) \cup {writes + 1}]
       ELSE history[c]]
  /\ UNCHANGED <<syncVars, resets, kills, wiped>>

\* Srs::graded, as far as reps go; a card without a row starts from 0.
RepsOf(row) == IF row = NoCard THEN 0 ELSE row.reps
GradedReps(reps, grade) ==
  CASE grade = "again" -> 0
    [] grade = "hard"  -> reps
    [] grade = "good"  -> reps + 1
    [] grade = "easy"  -> IF reps + 1 > LearnSteps + 1 THEN reps + 1 ELSE LearnSteps + 1

\* submit_review: the graded cards -- one word, or the glyphs of a syllable --
\* are dated now, whatever their date was, and the answer is logged once.
SubmitReview(d, track, cs, grade, now) ==
  /\ RecordWrite(d, cs)
  /\ db' = [db EXCEPT
       ![d].cards = [c \in Cards |->
          IF c \in cs
          THEN [rev |-> now, reps |-> GradedReps(RepsOf(@[c]), grade), val |-> writes + 1]
          ELSE @[c]],
       ![d].log[<<now, track, grade>>] = @ + 1]

SubmitGlyphs(d, now) ==
  \E cs \in (SUBSET Glyphs) \ {{}}, grade \in Grades : SubmitReview(d, "glyph", cs, grade, now)

SubmitWord(d, now) ==
  \E w \in Words, grade \in Grades : SubmitReview(d, "word", {w}, grade, now)

\* The cards of cs that have no row get one as known, ON CONFLICT DO NOTHING;
\* the INSERT leaves updated_epoch at its default, 0.
Seeded(cards, cs) ==
  [c \in Cards |-> IF c \in cs /\ cards[c] = NoCard
                   THEN [rev |-> 0, reps |-> SeededReps, val |-> writes + 1]
                   ELSE cards[c]]
Unstarted(d, cs) == {c \in cs : db[d].cards[c] = NoCard}

\* seed_known_vocab, on the words that are frequent enough; also what
\* next_introduction does for a single word that is somebody's name.
SeedKnownVocab(d, ws) ==
  /\ Unstarted(d, ws) # {}
  /\ RecordWrite(d, Unstarted(d, ws))
  /\ db' = [db EXCEPT ![d].cards = Seeded(@, ws)]

\* ON CONFLICT(concept) DO NOTHING.
Explained(seen, ks, now) ==
  [k \in Concepts |-> IF k \in ks /\ seen[k] = Unseen THEN now ELSE seen[k]]

\* seed_known_alphabet: every glyph, and the explanations of the script.  A
\* call that inserts nothing changes nothing.
SeedKnownAlphabet(d, now) ==
  /\ Unstarted(d, Glyphs) # {} \/ \E k \in Concepts : db[d].seen[k] = Unseen
  /\ RecordWrite(d, Unstarted(d, Glyphs))
  /\ db' = [db EXCEPT ![d].cards = Seeded(@, Glyphs),
                      ![d].seen = Explained(@, Concepts, now)]

\* next_study_item shows a one-time explanation it has not shown yet.
ExplainConcept(d, k, now) ==
  /\ db[d].seen[k] = Unseen
  /\ RecordWrite(d, {})
  /\ db' = [db EXCEPT ![d].seen = Explained(@, {k}, now)]

\* The tables reset_tutor empties, one statement each, in this order; `reset`
\* goes with the DELETE on meta, long before the new stamp is inserted.
WipedAfter(s, statements) ==
  [cards |-> [c \in Cards |->
                IF (c \in Glyphs /\ statements >= 1) \/ (c \in Words /\ statements >= 2)
                THEN NoCard ELSE s.cards[c]],
   reset |-> IF statements >= 3 THEN 0 ELSE s.reset,
   log   |-> IF statements >= 4 THEN Blank.log ELSE s.log,
   seen  |-> IF statements >= 5 THEN Blank.seen ELSE s.seen]

\* reset_tutor in full: the stamp is the clock's, never an earlier one.
ResetTutor(d, now) ==
  /\ resets < MaxResets
  /\ resets' = resets + 1
  /\ LET stamp == IF now >= db[d].reset THEN now ELSE db[d].reset
     IN  db' = [db EXCEPT ![d] = [WipedAfter(@, 5) EXCEPT !.reset = stamp]]
  /\ wiped' = [wiped EXCEPT ![d] = @ \cup
                 {<<c, db[d].cards[c]>> : c \in {e \in Cards : db[d].cards[e] # NoCard}}]
  /\ UNCHANGED <<syncVars, writes, kills, history>>

\* The app is killed after some of the DELETEs and before the stamp.
KilledInReset(d) ==
  /\ resets < MaxResets /\ kills < MaxKills
  /\ resets' = resets + 1 /\ kills' = kills + 1
  /\ \E statements \in 1..5 : db' = [db EXCEPT ![d] = WipedAfter(@, statements)]
  /\ UNCHANGED <<syncVars, writes, ghosts>>

Study(d) ==
  \/ KilledInReset(d)
  \/ \E ws \in SUBSET Words : SeedKnownVocab(d, ws)
  \/ \E now \in Epochs :
       \/ SubmitGlyphs(d, now)
       \/ SubmitWord(d, now)
       \/ SeedKnownAlphabet(d, now)
       \/ \E k \in Concepts : ExplainConcept(d, k, now)
       \/ ResetTutor(d, now)

-----------------------------------------------------------------------------
(* Sync rounds, as in DocumentSync *)

StartRound(d) ==
  Post(d, db[d]) /\ UNCHANGED <<db, server, counters, ghosts>>

HandlePost(q) ==
  /\ server' = MergeTutor(server, q.body)
  /\ Answer(q, server')
  /\ UNCHANGED <<db, counters, ghosts>>

MergeAnswer(d) ==
  /\ Answered(d)
  /\ db' = [db EXCEPT ![d] = MergeTutor(db[d], round[d].answer)]
  /\ Conclude(d)
  /\ UNCHANGED <<server, counters, ghosts>>

Disconnect(d) ==
  (TryNextAddress(d) \/ GiveUp(d)) /\ UNCHANGED <<db, server, counters, ghosts>>

Next ==
  \/ \E d \in Devices : Study(d) \/ StartRound(d) \/ MergeAnswer(d) \/ Disconnect(d)
  \/ \E q \in wire : HandlePost(q)

Spec == Init /\ [][Next]_vars

\* The app keeps starting rounds, and the network does not lose every one.
HandlePostOf(d) == \E q \in LiveOf(d) : HandlePost(q) /\ round'[d].phase = "answered"
Fairness ==
  \A d \in Devices :
    /\ WF_vars(StartRound(d))
    /\ WF_vars(Disconnect(d))
    /\ SF_vars(HandlePostOf(d))
    /\ SF_vars(MergeAnswer(d))
FairSpec == Spec /\ Fairness

-----------------------------------------------------------------------------
(* Properties *)

\* The type invariant.
TypeOK ==
  /\ db \in [Devices -> States]
  /\ server \in States
  /\ writes \in 0..MaxWrites /\ resets \in 0..MaxResets /\ kills \in 0..MaxKills
  /\ history \in [Cards -> [Writes -> SUBSET Writes]]
  /\ wiped \in [Devices -> SUBSET (Cards \X Rows)]
  /\ RoundsTypeOK(States)

\* A reset is not undone: a card row that a device's reset removed and that is
\* dated before the device's reset stamp never appears on that device again,
\* from whatever device, server or late request it comes back, even after a
\* reset that the app's end cut short.
ErasedStaysErased ==
  \A d \in Devices, c \in Cards :
    <<c, db[d].cards[c]>> \in wiped[d] => db[d].cards[c].rev >= db[d].reset

\* What a merge that turns old into new must keep: every card, answer and
\* explanation that is dated at or after the resets of both sides, or
\* something that outranks the card or is older than the explanation.
Keeps(old, new) ==
  /\ new.reset >= old.reset
  /\ \A c \in Cards : old.cards[c] # NoCard /\ old.cards[c].rev >= new.reset =>
       /\ new.cards[c] # NoCard
       /\ ~OutranksCard(old.cards[c], new.cards[c])
  /\ \A a \in Answers : a[1] >= new.reset => new.log[a] >= old.log[a]
  /\ \A k \in Concepts : old.seen[k] # Unseen /\ old.seen[k] >= new.reset =>
       new.seen[k] # Unseen /\ new.seen[k] <= old.seen[k]

\* Work done after the reset survives every merge, on the server and on the
\* devices, whatever was graded while the answer was on its way and however
\* late or often a request is handled.
MergesKeepWork ==
  [][/\ Keeps(server, server')
     /\ \A d \in Devices : MergeAnswer(d) => Keeps(db[d], db'[d])]_vars

\* Once the learner stops, every device and the server come to agree on the
\* reset, on the date and repetitions of every card, on what was explained
\* when, and on which answers were given (not on how often: see MergeCount),
\* and none of them holds anything dated before the reset: it reached everyone.
HoldsNothingBeforeReset(s) ==
  /\ \A c \in Cards : s.cards[c] # NoCard => s.cards[c].rev >= s.reset
  /\ \A a \in Answers : s.log[a] > 0 => a[1] >= s.reset
  /\ \A k \in Concepts : s.seen[k] # Unseen => s.seen[k] >= s.reset
CardRank(row) == IF row = NoCard THEN <<-1, -1>> ELSE <<row.rev, row.reps>>
SameProgress(a, b) ==
  /\ a.reset = b.reset
  /\ \A c \in Cards : CardRank(a.cards[c]) = CardRank(b.cards[c])
  /\ a.seen = b.seen
  /\ \A w \in Answers : (a.log[w] > 0) = (b.log[w] > 0)
ProgressAgrees ==
  \A d \in Devices : HoldsNothingBeforeReset(db[d]) /\ SameProgress(db[d], server)
ProgressConverges == <>[]ProgressAgrees

\* One round is enough: a device on which nothing was done while it synced has
\* just the progress the server answered with, and nothing from before the
\* reset, whatever reset, seeding or older state either side held.
RoundsSettle ==
  [][\A d \in Devices :
       MergeAnswer(d) /\ db[d] = round[d].body =>
         /\ SameProgress(db'[d], round[d].answer)
         /\ HoldsNothingBeforeReset(db'[d])]_vars

\* What the test tutor_reset_is_not_undone_by_a_stale_snapshot says of a device
\* that has reset: work done since survives a merge that brings no later reset.
WorkSinceResetSurvives ==
  [][\A d \in Devices, c \in Cards :
       MergeAnswer(d) /\ db[d].cards[c] # NoCard /\ round[d].answer.reset <= db[d].reset
         => db'[d].cards[c] # NoCard]_vars

\* What the module comment of progress_sync.rs says of two states of a card:
\* the most recently recorded review wins, so that a grading never gives way
\* to one that it was made on top of.
LatestReviewWins ==
  [][\A d \in Devices, c \in Cards :
       MergeAnswer(d) /\ db[d].cards[c] # NoCard /\ db'[d].cards[c] # NoCard
         => db'[d].cards[c].val
              \notin history[c][db[d].cards[c].val] \ {db[d].cards[c].val}]_vars
=============================================================================
