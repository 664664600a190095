-------------------------- MODULE TutorSync_proofs -------------------------
(***************************************************************************)
(* Proofs about TutorSync, for any devices, cards, concepts, grades,       *)
(* clocks and numbers of writes, resets and interrupted resets.            *)
(***************************************************************************)
EXTENDS TutorSync, SnapshotRounds_proofs

\* The tutor states that the first n writes can make.
StatesUpTo(n) == [cards : [Cards -> CardRows(1..n) \cup {NoCard}],
                  log   : [Answers -> Nat],
                  seen  : [Concepts -> Epochs \cup {Unseen}],
                  reset : Nat]

-----------------------------------------------------------------------------
(* Lemmas on the merge rules *)

\* NoCard is no row, whatever the writes.
LEMMA NoCardIsNoRow ==
  ASSUME NEW n \in Nat
  PROVE  /\ NoCard \notin CardRows(1..n)
         /\ CardRows(1..n) \subseteq [rev : Nat, reps : Nat, val : 1..n]
BY NoCardAssumption DEF CardRows

\* Applying a reset keeps the type, and leaves nothing dated before it.
LEMMA SurvivingType ==
  ASSUME NEW n \in Nat, NEW s \in StatesUpTo(n), NEW reset \in Nat
  PROVE  /\ Surviving(s, reset) \in StatesUpTo(n)
         /\ Surviving(s, reset).reset = reset
         /\ \A c \in Cards : Surviving(s, reset).cards[c] =
              IF s.cards[c] # NoCard /\ s.cards[c].rev < reset THEN NoCard ELSE s.cards[c]
         /\ \A a \in Answers : Surviving(s, reset).log[a] =
              IF a[1] < reset THEN 0 ELSE s.log[a]
         /\ \A k \in Concepts : Surviving(s, reset).seen[k] =
              IF s.seen[k] < reset THEN Unseen ELSE s.seen[k]
<1>1. /\ s.cards \in [Cards -> CardRows(1..n) \cup {NoCard}]
      /\ s.log \in [Answers -> Nat]
      /\ s.seen \in [Concepts -> Epochs \cup {Unseen}]
  BY DEF StatesUpTo
<1>2. /\ DOMAIN s.cards = Cards /\ DOMAIN s.log = Answers /\ DOMAIN s.seen = Concepts
  BY <1>1
<1>3. [c \in Cards |-> IF s.cards[c] # NoCard /\ s.cards[c].rev < reset
                       THEN NoCard ELSE s.cards[c]]
        \in [Cards -> CardRows(1..n) \cup {NoCard}]
  BY <1>1
<1>4. [a \in Answers |-> IF a[1] < reset THEN 0 ELSE s.log[a]] \in [Answers -> Nat]
  BY <1>1
<1>5. [k \in Concepts |-> IF s.seen[k] < reset THEN Unseen ELSE s.seen[k]]
        \in [Concepts -> Epochs \cup {Unseen}]
  BY <1>1
<1> QED BY <1>2, <1>3, <1>4, <1>5 DEF Surviving, StatesUpTo

\* What the union of two states holds.
LEMMA UnionType ==
  ASSUME NEW n \in Nat, NEW s \in StatesUpTo(n), NEW t \in StatesUpTo(n)
  PROVE  /\ UnionTutor(s, t) \in StatesUpTo(n)
         /\ UnionTutor(s, t).reset = s.reset
         /\ \A c \in Cards : UnionTutor(s, t).cards[c] = MergeCard(s.cards[c], t.cards[c])
         /\ \A a \in Answers : UnionTutor(s, t).log[a] = MergeCount(s.log[a], t.log[a])
         /\ \A k \in Concepts : UnionTutor(s, t).seen[k] = MergeEpoch(s.seen[k], t.seen[k])
<1>1. /\ s.cards \in [Cards -> CardRows(1..n) \cup {NoCard}]
      /\ t.cards \in [Cards -> CardRows(1..n) \cup {NoCard}]
      /\ s.log \in [Answers -> Nat] /\ t.log \in [Answers -> Nat]
      /\ s.seen \in [Concepts -> Epochs \cup {Unseen}]
      /\ t.seen \in [Concepts -> Epochs \cup {Unseen}]
      /\ s.reset \in Nat
  BY DEF StatesUpTo
<1>2. DOMAIN s.cards = Cards /\ DOMAIN s.log = Answers /\ DOMAIN s.seen = Concepts
  BY <1>1
<1>3. [c \in Cards |-> MergeCard(s.cards[c], t.cards[c])]
        \in [Cards -> CardRows(1..n) \cup {NoCard}]
  BY <1>1 DEF MergeCard
<1>4. [a \in Answers |-> MergeCount(s.log[a], t.log[a])] \in [Answers -> Nat]
  BY <1>1 DEF MergeCount
<1>5. [k \in Concepts |-> MergeEpoch(s.seen[k], t.seen[k])]
        \in [Concepts -> Epochs \cup {Unseen}]
  BY <1>1 DEF MergeEpoch
<1> QED BY <1>1, <1>2, <1>3, <1>4, <1>5 DEF UnionTutor, StatesUpTo

\* A merge gives a tutor state with the later reset, all of whose cards are
\* dated at or after it.
LEMMA MergeTutorType ==
  ASSUME NEW n \in Nat, NEW s \in StatesUpTo(n), NEW t \in StatesUpTo(n)
  PROVE  /\ MergeTutor(s, t) \in StatesUpTo(n)
         /\ MergeTutor(s, t).reset = LaterReset(s, t)
         /\ \A c \in Cards : MergeTutor(s, t).cards[c] # NoCard =>
              MergeTutor(s, t).cards[c].rev >= LaterReset(s, t)
<1> DEFINE r == LaterReset(s, t)
<1>1. r \in Nat
  BY DEF LaterReset, StatesUpTo
<1>2. Surviving(s, r) \in StatesUpTo(n) /\ Surviving(t, r) \in StatesUpTo(n)
  BY <1>1, SurvivingType
<1>3. MergeTutor(s, t) = UnionTutor(Surviving(s, r), Surviving(t, r))
  BY DEF MergeTutor
<1>4. ASSUME NEW c \in Cards, MergeTutor(s, t).cards[c] # NoCard
      PROVE  MergeTutor(s, t).cards[c].rev >= r
  <2>1. /\ Surviving(s, r).cards[c] # NoCard => Surviving(s, r).cards[c].rev >= r
        /\ Surviving(t, r).cards[c] # NoCard => Surviving(t, r).cards[c].rev >= r
    <3>1. /\ s.cards[c] # NoCard => s.cards[c].rev \in Nat
          /\ t.cards[c] # NoCard => t.cards[c].rev \in Nat
      BY DEF StatesUpTo, CardRows
    <3>2. /\ Surviving(s, r).cards[c] =
               IF s.cards[c] # NoCard /\ s.cards[c].rev < r THEN NoCard ELSE s.cards[c]
          /\ Surviving(t, r).cards[c] =
               IF t.cards[c] # NoCard /\ t.cards[c].rev < r THEN NoCard ELSE t.cards[c]
      BY <1>1, SurvivingType
    <3> HIDE DEF r
    <3> QED BY <1>1, <3>1, <3>2
  <2>2. MergeTutor(s, t).cards[c] \in {Surviving(s, r).cards[c], Surviving(t, r).cards[c]}
    BY <1>2, <1>3, UnionType DEF MergeCard
  <2> QED BY <1>4, <2>1, <2>2
<1> QED BY <1>1, <1>2, <1>3, <1>4, UnionType, SurvivingType

\* A merge keeps what it must.
LEMMA MergeKeeps ==
  ASSUME NEW n \in Nat, NEW s \in StatesUpTo(n), NEW t \in StatesUpTo(n)
  PROVE  Keeps(s, MergeTutor(s, t))
<1> DEFINE r == LaterReset(s, t)
           x == Surviving(s, r)
           y == Surviving(t, r)
<1>1. r \in Nat /\ r >= s.reset
  BY DEF LaterReset, StatesUpTo
<1>2. x \in StatesUpTo(n) /\ y \in StatesUpTo(n)
  BY <1>1, SurvivingType
<1>3. MergeTutor(s, t) = UnionTutor(x, y) /\ MergeTutor(s, t).reset = r
  BY MergeTutorType DEF MergeTutor
<1>4. /\ \A c \in Cards : MergeTutor(s, t).cards[c] = MergeCard(x.cards[c], y.cards[c])
      /\ \A a \in Answers : MergeTutor(s, t).log[a] = MergeCount(x.log[a], y.log[a])
      /\ \A k \in Concepts : MergeTutor(s, t).seen[k] = MergeEpoch(x.seen[k], y.seen[k])
  <2> HIDE DEF x, y
  <2> QED BY <1>2, <1>3, UnionType
<1>5. /\ \A c \in Cards : x.cards[c] =
           IF s.cards[c] # NoCard /\ s.cards[c].rev < r THEN NoCard ELSE s.cards[c]
      /\ \A a \in Answers : x.log[a] = IF a[1] < r THEN 0 ELSE s.log[a]
      /\ \A k \in Concepts : x.seen[k] = IF s.seen[k] < r THEN Unseen ELSE s.seen[k]
  <2> HIDE DEF r
  <2> QED BY <1>1, SurvivingType
<1> HIDE DEF x, y, r
<1>6. ASSUME NEW c \in Cards, s.cards[c] # NoCard, s.cards[c].rev >= r
      PROVE  /\ MergeTutor(s, t).cards[c] # NoCard
             /\ ~OutranksCard(s.cards[c], MergeTutor(s, t).cards[c])
  <2>1. s.cards[c].rev \in Nat /\ s.cards[c].reps \in Nat
    BY <1>6 DEF StatesUpTo, CardRows
  <2>2. x.cards[c] = s.cards[c]
    BY <1>1, <1>6, <1>5, <2>1
  <2>3. y.cards[c] # NoCard => y.cards[c].rev \in Nat /\ y.cards[c].reps \in Nat
    BY <1>2 DEF StatesUpTo, CardRows
  <2>4. MergeTutor(s, t).cards[c] = MergeCard(x.cards[c], y.cards[c])
    BY <1>4
  <2> QED BY <1>6, <2>1, <2>2, <2>3, <2>4 DEF MergeCard, OutranksCard
<1>7. ASSUME NEW a \in Answers, a[1] >= r
      PROVE  MergeTutor(s, t).log[a] >= s.log[a]
  <2>1. a[1] \in Nat /\ s.log[a] \in Nat
    BY DEF Answers, Epochs, StatesUpTo
  <2>2. x.log[a] = s.log[a]
    BY <1>1, <1>7, <1>5, <2>1
  <2>3. y.log[a] \in Nat
    BY <1>2 DEF StatesUpTo
  <2>4. MergeTutor(s, t).log[a] = MergeCount(x.log[a], y.log[a])
    BY <1>4
  <2> QED BY <2>1, <2>2, <2>3, <2>4 DEF MergeCount
<1>8. ASSUME NEW k \in Concepts, s.seen[k] # Unseen, s.seen[k] >= r
      PROVE  MergeTutor(s, t).seen[k] # Unseen /\ MergeTutor(s, t).seen[k] <= s.seen[k]
  <2>1. s.seen[k] \in Nat
    BY <1>8 DEF StatesUpTo, Epochs
  <2>2. x.seen[k] = s.seen[k]
    BY <1>1, <1>8, <1>5, <2>1
  <2>3. y.seen[k] = Unseen \/ y.seen[k] \in Nat
    BY <1>2 DEF StatesUpTo, Epochs
  <2>4. MergeTutor(s, t).seen[k] = MergeEpoch(x.seen[k], y.seen[k])
    BY <1>4
  <2> QED BY <2>1, <2>2, <2>3, <2>4 DEF MergeEpoch, Unseen
<1> QED BY <1>1, <1>3, <1>6, <1>7, <1>8 DEF Keeps, r

\* A state that does not change keeps everything.
LEMMA SameKeeps ==
  ASSUME NEW n \in Nat, NEW s \in StatesUpTo(n)
  PROVE  Keeps(s, s)
<1>1. /\ s.reset \in Nat
      /\ \A c \in Cards : s.cards[c] # NoCard =>
           s.cards[c].rev \in Nat /\ s.cards[c].reps \in Nat
      /\ \A a \in Answers : s.log[a] \in Nat
      /\ \A k \in Concepts : s.seen[k] = Unseen \/ s.seen[k] \in Nat
  BY DEF StatesUpTo, CardRows, Epochs
<1> QED BY <1>1 DEF Keeps, OutranksCard

-----------------------------------------------------------------------------
(* Type correctness *)

\* Everything that exists comes from the writes so far.
Bounded ==
  /\ db \in [Devices -> StatesUpTo(writes)]
  /\ server \in StatesUpTo(writes)
  /\ writes \in 0..MaxWrites /\ resets \in 0..MaxResets /\ kills \in 0..MaxKills
  /\ history \in [Cards -> [Writes -> SUBSET Writes]]
  /\ wiped \in [Devices -> SUBSET (Cards \X CardRows(1..writes))]
  /\ RoundsTypeOK(StatesUpTo(writes))

\* More writes make more states.
LEMMA MoreStates ==
  ASSUME NEW m \in Nat, NEW n \in Nat, m <= n
  PROVE  /\ CardRows(1..m) \subseteq CardRows(1..n)
         /\ StatesUpTo(m) \subseteq StatesUpTo(n)
<1>1. CardRows(1..m) \subseteq CardRows(1..n)
  BY DEF CardRows
<1> QED BY <1>1 DEF StatesUpTo

\* Rounds of fewer snapshots are rounds of more.
LEMMA MoreRounds ==
  ASSUME NEW S, NEW T, S \subseteq T, RoundsTypeOK(S)
  PROVE  RoundsTypeOK(T)
BY DEF RoundsTypeOK

\* What is bounded has its types.
LEMMA BoundedTypes == Bounded => TypeOK
<1> SUFFICES ASSUME Bounded PROVE TypeOK
  OBVIOUS
<1>1. StatesUpTo(MaxWrites) = States /\ CardRows(1..MaxWrites) = Rows
  BY DEF StatesUpTo, States, Rows, Writes
<1>2. writes \in Nat /\ MaxWrites \in Nat /\ writes <= MaxWrites
  BY TutorAssumption DEF Bounded
<1>3. StatesUpTo(writes) \subseteq States /\ CardRows(1..writes) \subseteq Rows
  BY <1>1, <1>2, MoreStates
<1>4. RoundsTypeOK(States)
  BY <1>3, MoreRounds DEF Bounded
<1> QED BY <1>3, <1>4 DEF Bounded, TypeOK

\* The state of d alone changes, to one that the writes up to now can make.
StudiedAt(d) ==
  /\ writes' \in 0..MaxWrites /\ writes <= writes'
  /\ db' \in [Devices -> StatesUpTo(writes')]
  /\ \A e \in Devices \ {d} : db'[e] = db[e]
  /\ history' \in [Cards -> [Writes -> SUBSET Writes]]
  /\ UNCHANGED syncVars

\* No card of d comes back that its resets removed.
Unerased(d) ==
  /\ UNCHANGED wiped
  /\ db'[d].reset \in {db[d].reset, 0}
  /\ \A c \in Cards : \/ db'[d].cards[c] \in {db[d].cards[c], NoCard}
                      \/ db'[d].cards[c].val = writes + 1

\* One more write: what it records, and what its row of a card may be.
LEMMA RecordType ==
  ASSUME Bounded, NEW d \in Devices, NEW cs \in SUBSET Cards, RecordWrite(d, cs)
  PROVE  /\ writes \in Nat /\ writes' = writes + 1 /\ writes' \in Writes
         /\ writes' \in 0..MaxWrites /\ writes <= writes'
         /\ StatesUpTo(writes) \subseteq StatesUpTo(writes')
         /\ CardRows(1..writes) \subseteq CardRows(1..writes')
         /\ \A rev, reps \in Nat :
              [rev |-> rev, reps |-> reps, val |-> writes + 1] \in CardRows(1..writes')
         /\ history' \in [Cards -> [Writes -> SUBSET Writes]]
         /\ UNCHANGED <<syncVars, resets, kills, wiped>>
<1>1. /\ writes \in Nat /\ writes' = writes + 1 /\ writes' \in Writes
      /\ writes' \in 0..MaxWrites /\ writes <= writes'
  BY TutorAssumption DEF Bounded, RecordWrite, Writes
<1>2. \A rev, reps \in Nat :
        [rev |-> rev, reps |-> reps, val |-> writes + 1] \in CardRows(1..writes')
  BY <1>1 DEF CardRows
<1>3. ASSUME NEW c \in Cards PROVE HistoryOf(c, db[d].cards[c]) \in SUBSET Writes
  <2>1. db[d].cards[c] = NoCard \/ db[d].cards[c].val \in Writes
    <3>1. db[d].cards[c] \in CardRows(1..writes) \cup {NoCard}
      BY DEF Bounded, StatesUpTo
    <3> QED BY <1>1, <3>1, TutorAssumption DEF CardRows, Writes, Bounded
  <2> QED BY <2>1 DEF HistoryOf, Bounded
<1>4. history' \in [Cards -> [Writes -> SUBSET Writes]]
  <2>1. history \in [Cards -> [Writes -> SUBSET Writes]]
    BY DEF Bounded
  <2> QED BY <1>1, <1>3, <2>1 DEF RecordWrite
<1>5. /\ StatesUpTo(writes) \subseteq StatesUpTo(writes')
      /\ CardRows(1..writes) \subseteq CardRows(1..writes')
  BY <1>1, MoreStates
<1> QED BY <1>1, <1>2, <1>4, <1>5 DEF RecordWrite

\* The parts of a tutor state.
LEMMA StateParts ==
  ASSUME NEW n \in Nat, NEW s \in StatesUpTo(n)
  PROVE  /\ s.cards \in [Cards -> CardRows(1..n) \cup {NoCard}]
         /\ s.log \in [Answers -> Nat]
         /\ s.seen \in [Concepts -> Epochs \cup {Unseen}]
         /\ s.reset \in Nat
BY DEF StatesUpTo

\* A state may change one part at a time: the cards,
LEMMA NewCards ==
  ASSUME NEW n \in Nat, NEW s \in StatesUpTo(n), NEW m \in Nat,
         NEW cards \in [Cards -> CardRows(1..m) \cup {NoCard}]
  PROVE  [s EXCEPT !.cards = cards] \in StatesUpTo(m)
BY DEF StatesUpTo

\* or the log,
LEMMA NewLog ==
  ASSUME NEW n \in Nat, NEW s \in StatesUpTo(n), NEW log \in [Answers -> Nat]
  PROVE  [s EXCEPT !.log = log] \in StatesUpTo(n)
BY DEF StatesUpTo

\* or the explanations.
LEMMA NewSeen ==
  ASSUME NEW n \in Nat, NEW s \in StatesUpTo(n),
         NEW seen \in [Concepts -> Epochs \cup {Unseen}]
  PROVE  [s EXCEPT !.seen = seen] \in StatesUpTo(n)
BY DEF StatesUpTo

\* A graded card is a row of the new write, and the answer is one of Answers.
LEMMA ReviewType ==
  ASSUME Bounded, NEW d \in Devices, NEW track \in {"glyph", "word"},
         NEW cs \in SUBSET Cards, NEW grade \in Grades, NEW now \in Epochs,
         SubmitReview(d, track, cs, grade, now)
  PROVE  StudiedAt(d) /\ Unerased(d) /\ UNCHANGED <<resets, kills>>
<1> DEFINE s == db[d]
           cards == [c \in Cards |->
             IF c \in cs
             THEN [rev |-> now, reps |-> GradedReps(RepsOf(s.cards[c]), grade), val |-> writes + 1]
             ELSE s.cards[c]]
           log == [s.log EXCEPT ![<<now, track, grade>>] = @ + 1]
           graded == [s EXCEPT !.cards = cards]
           new == [graded EXCEPT !.log = log]
<1>1. RecordWrite(d, cs)
  BY DEF SubmitReview
<1>2. s \in StatesUpTo(writes) /\ writes \in Nat
  BY <1>1, RecordType DEF Bounded
<1>3. ASSUME NEW c \in Cards
      PROVE  GradedReps(RepsOf(s.cards[c]), grade) \in Nat
  <2>1. RepsOf(s.cards[c]) \in Nat
    BY <1>2, StateParts DEF RepsOf, CardRows
  <2> HIDE DEF s
  <2> QED BY <2>1, TutorAssumption DEF GradedReps, LearnSteps
<1>4. now \in Nat
  BY DEF Epochs
<1>5. cards \in [Cards -> CardRows(1..writes') \cup {NoCard}]
  <2>1. \A c \in Cards : s.cards[c] \in CardRows(1..writes') \cup {NoCard}
    BY <1>1, <1>2, StateParts, RecordType
  <2> HIDE DEF s
  <2> QED BY <1>1, <1>3, <1>4, <2>1, RecordType
<1>6. log \in [Answers -> Nat]
  BY <1>2, StateParts DEF Answers
<1>7. new \in StatesUpTo(writes')
  <2>0. writes' \in Nat
    BY <1>1, <1>2, RecordType
  <2>1. graded \in StatesUpTo(writes')
    <3> HIDE DEF s, cards
    <3> QED BY <1>2, <1>5, <2>0, NewCards
  <2> HIDE DEF graded, log
  <2> QED BY <1>6, <2>0, <2>1, NewLog
<1>8. db' = [db EXCEPT ![d] = new]
  BY DEF SubmitReview, Bounded
<1>9. db'[d] = new
  BY <1>8 DEF Bounded
<1>10. new.reset = s.reset /\ new.cards = cards
  BY <1>2 DEF StatesUpTo
<1>11. Unerased(d)
  <2> HIDE DEF new
  <2> QED BY <1>1, <1>9, <1>10, RecordType DEF Unerased
<1> HIDE DEF new
<1> QED BY <1>1, <1>7, <1>8, <1>11, RecordType DEF StudiedAt, Bounded

\* A seeded card is a row of the new write, where there was none.
LEMMA SeededType ==
  ASSUME Bounded, NEW d \in Devices, NEW cs \in SUBSET Cards,
         RecordWrite(d, Unstarted(d, cs))
  PROVE  /\ Seeded(db[d].cards, cs) \in [Cards -> CardRows(1..writes') \cup {NoCard}]
         /\ \A c \in Cards : \/ Seeded(db[d].cards, cs)[c] = db[d].cards[c]
                             \/ Seeded(db[d].cards, cs)[c].val = writes + 1
<1>1. Unstarted(d, cs) \in SUBSET Cards
  BY DEF Unstarted
<1>2. \A c \in Cards : db[d].cards[c] \in CardRows(1..writes') \cup {NoCard}
  <2>1. db[d] \in StatesUpTo(writes) /\ writes \in Nat
    BY <1>1, RecordType DEF Bounded
  <2> QED BY <1>1, <2>1, StateParts, RecordType
<1>3. [rev |-> 0, reps |-> SeededReps, val |-> writes + 1] \in CardRows(1..writes')
  BY <1>1, RecordType DEF SeededReps
<1> QED BY <1>2, <1>3 DEF Seeded

\* Calibrating the vocabulary.
LEMMA SeedVocabType ==
  ASSUME Bounded, NEW d \in Devices, NEW ws \in SUBSET Words, SeedKnownVocab(d, ws)
  PROVE  StudiedAt(d) /\ Unerased(d) /\ UNCHANGED <<resets, kills>>
<1> DEFINE cards == Seeded(db[d].cards, ws)
           new == [db[d] EXCEPT !.cards = cards]
<1>1. RecordWrite(d, Unstarted(d, ws)) /\ ws \in SUBSET Cards
  BY DEF SeedKnownVocab, Cards
<1>2. Unstarted(d, ws) \in SUBSET Cards
  BY <1>1 DEF Unstarted
<1>3. db[d] \in StatesUpTo(writes) /\ writes \in Nat /\ writes' \in Nat
  BY <1>1, <1>2, RecordType DEF Bounded
<1>4. /\ cards \in [Cards -> CardRows(1..writes') \cup {NoCard}]
      /\ \A c \in Cards : cards[c] = db[d].cards[c] \/ cards[c].val = writes + 1
  BY <1>1, SeededType
<1> HIDE DEF cards
<1>5. new \in StatesUpTo(writes')
  BY <1>3, <1>4, NewCards
<1>6. db' = [db EXCEPT ![d] = new]
  BY DEF SeedKnownVocab, cards
<1>7. new.cards = cards /\ new.reset = db[d].reset
  BY <1>3 DEF StatesUpTo
<1> HIDE DEF new
<1>8. Unerased(d)
  BY <1>1, <1>2, <1>4, <1>6, <1>7, RecordType DEF Unerased, Bounded
<1> QED BY <1>1, <1>2, <1>5, <1>6, <1>8, RecordType DEF StudiedAt, Bounded

\* An explanation is dated now, where there was none.
LEMMA ExplainedType ==
  ASSUME NEW seen \in [Concepts -> Epochs \cup {Unseen}], NEW ks, NEW now \in Epochs
  PROVE  Explained(seen, ks, now) \in [Concepts -> Epochs \cup {Unseen}]
BY DEF Explained

\* Seeding the alphabet.
LEMMA SeedAlphabetType ==
  ASSUME Bounded, NEW d \in Devices, NEW now \in Epochs, SeedKnownAlphabet(d, now)
  PROVE  StudiedAt(d) /\ Unerased(d) /\ UNCHANGED <<resets, kills>>
<1> DEFINE cards == Seeded(db[d].cards, Glyphs)
           seen == Explained(db[d].seen, Concepts, now)
           seeded == [db[d] EXCEPT !.cards = cards]
           new == [seeded EXCEPT !.seen = seen]
<1>1. RecordWrite(d, Unstarted(d, Glyphs)) /\ Glyphs \in SUBSET Cards
  BY DEF SeedKnownAlphabet, Cards
<1>2. Unstarted(d, Glyphs) \in SUBSET Cards
  BY <1>1 DEF Unstarted
<1>3. db[d] \in StatesUpTo(writes) /\ writes \in Nat /\ writes' \in Nat
  BY <1>1, <1>2, RecordType DEF Bounded
<1>4. /\ cards \in [Cards -> CardRows(1..writes') \cup {NoCard}]
      /\ \A c \in Cards : cards[c] = db[d].cards[c] \/ cards[c].val = writes + 1
  BY <1>1, SeededType
<1>5. seen \in [Concepts -> Epochs \cup {Unseen}]
  BY <1>3, StateParts, ExplainedType
<1> HIDE DEF cards, seen
<1>6. seeded \in StatesUpTo(writes')
  BY <1>3, <1>4, NewCards
<1>7. seeded.cards = cards /\ seeded.reset = db[d].reset
  BY <1>3 DEF StatesUpTo
<1>8. db' = [db EXCEPT ![d] = new]
  BY DEF SeedKnownAlphabet, cards, seen
<1> HIDE DEF seeded
<1>9. new \in StatesUpTo(writes')
  BY <1>3, <1>5, <1>6, NewSeen
<1>10. new.cards = cards /\ new.reset = db[d].reset
  BY <1>6, <1>7 DEF StatesUpTo
<1> HIDE DEF new
<1>11. Unerased(d)
  BY <1>1, <1>2, <1>4, <1>8, <1>10, RecordType DEF Unerased, Bounded
<1> QED BY <1>1, <1>2, <1>8, <1>9, <1>11, RecordType DEF StudiedAt, Bounded

\* Explaining a concept.
LEMMA ExplainType ==
  ASSUME Bounded, NEW d \in Devices, NEW k \in Concepts, NEW now \in Epochs,
         ExplainConcept(d, k, now)
  PROVE  StudiedAt(d) /\ Unerased(d) /\ UNCHANGED <<resets, kills>>
<1> DEFINE seen == Explained(db[d].seen, {k}, now)
           new == [db[d] EXCEPT !.seen = seen]
<1>1. RecordWrite(d, {}) /\ {} \in SUBSET Cards
  BY DEF ExplainConcept
<1>2. /\ db[d] \in StatesUpTo(writes) /\ db[d] \in StatesUpTo(writes')
      /\ writes \in Nat /\ writes' \in Nat
  BY <1>1, RecordType DEF Bounded
<1>3. seen \in [Concepts -> Epochs \cup {Unseen}]
  BY <1>2, StateParts, ExplainedType
<1> HIDE DEF seen
<1>4. new \in StatesUpTo(writes')
  BY <1>2, <1>3, NewSeen
<1>5. db' = [db EXCEPT ![d] = new]
  BY DEF ExplainConcept, seen
<1>6. new.cards = db[d].cards /\ new.reset = db[d].reset
  BY <1>2 DEF StatesUpTo
<1> HIDE DEF new
<1>7. Unerased(d)
  BY <1>1, <1>5, <1>6, RecordType DEF Unerased, Bounded
<1> QED BY <1>1, <1>4, <1>5, <1>7, RecordType DEF StudiedAt, Bounded

\* The DELETEs of a reset, all or some, remove and keep cards as they are.
LEMMA WipedType ==
  ASSUME NEW n \in Nat, NEW s \in StatesUpTo(n), NEW statements \in 1..5
  PROVE  /\ WipedAfter(s, statements) \in StatesUpTo(n)
         /\ WipedAfter(s, statements).reset \in {s.reset, 0}
         /\ \A c \in Cards :
              /\ WipedAfter(s, statements).cards[c] \in {s.cards[c], NoCard}
              /\ statements = 5 => WipedAfter(s, statements).cards[c] = NoCard
<1>1. /\ s.cards \in [Cards -> CardRows(1..n) \cup {NoCard}]
      /\ s.log \in [Answers -> Nat]
      /\ s.seen \in [Concepts -> Epochs \cup {Unseen}]
      /\ s.reset \in Nat
  BY StateParts
<1>2. Blank.log \in [Answers -> Nat] /\ Blank.seen \in [Concepts -> Epochs \cup {Unseen}]
  BY DEF Blank
<1>3. [c \in Cards |->
         IF (c \in Glyphs /\ statements >= 1) \/ (c \in Words /\ statements >= 2)
         THEN NoCard ELSE s.cards[c]] \in [Cards -> CardRows(1..n) \cup {NoCard}]
  BY <1>1
<1>4. WipedAfter(s, statements) \in StatesUpTo(n)
  BY <1>1, <1>2, <1>3 DEF WipedAfter, StatesUpTo
<1>5. /\ WipedAfter(s, statements).reset = IF statements >= 3 THEN 0 ELSE s.reset
      /\ \A c \in Cards : WipedAfter(s, statements).cards[c] =
           IF (c \in Glyphs /\ statements >= 1) \/ (c \in Words /\ statements >= 2)
           THEN NoCard ELSE s.cards[c]
  BY DEF WipedAfter
<1> QED BY <1>4, <1>5 DEF Cards

\* A reset that completes removes every card and remembers them.
LEMMA ResetType ==
  ASSUME Bounded, NEW d \in Devices, NEW now \in Epochs, ResetTutor(d, now)
  PROVE  /\ StudiedAt(d) /\ writes' = writes
         /\ \A c \in Cards : db'[d].cards[c] = NoCard
         /\ wiped' \in [Devices -> SUBSET (Cards \X CardRows(1..writes))]
         /\ \A e \in Devices \ {d} : wiped'[e] = wiped[e]
<1> DEFINE stamp == IF now >= db[d].reset THEN now ELSE db[d].reset
           wipe == WipedAfter(db[d], 5)
           new == [wipe EXCEPT !.reset = stamp]
<1>1. /\ db[d] \in StatesUpTo(writes) /\ writes \in Nat /\ writes' = writes
      /\ db \in [Devices -> StatesUpTo(writes)]
      /\ wiped \in [Devices -> SUBSET (Cards \X CardRows(1..writes))]
  BY TutorAssumption DEF Bounded, ResetTutor
<1>2. stamp \in Nat
  BY <1>1, StateParts DEF Epochs
<1>3. wipe \in StatesUpTo(writes) /\ \A c \in Cards : wipe.cards[c] = NoCard
  BY <1>1, WipedType
<1>4. db' = [db EXCEPT ![d] = new]
  BY DEF ResetTutor
<1> HIDE DEF stamp, wipe
<1>5. new \in StatesUpTo(writes) /\ new.cards = wipe.cards
  BY <1>2, <1>3 DEF StatesUpTo
<1> HIDE DEF new
<1>6. \A c \in Cards : db[d].cards[c] # NoCard => db[d].cards[c] \in CardRows(1..writes)
  BY <1>1, StateParts
<1>7. wiped' = [wiped EXCEPT ![d] = @ \cup
                  {<<c, db[d].cards[c]>> : c \in {e \in Cards : db[d].cards[e] # NoCard}}]
  BY DEF ResetTutor
<1>8. /\ wiped' \in [Devices -> SUBSET (Cards \X CardRows(1..writes))]
      /\ \A e \in Devices \ {d} : wiped'[e] = wiped[e]
  BY <1>1, <1>6, <1>7
<1>9. StudiedAt(d)
  BY <1>1, <1>4, <1>5 DEF StudiedAt, Bounded, ResetTutor
<1> QED BY <1>1, <1>3, <1>4, <1>5, <1>8, <1>9

\* A reset that is cut short.
LEMMA KilledType ==
  ASSUME Bounded, NEW d \in Devices, KilledInReset(d)
  PROVE  StudiedAt(d) /\ Unerased(d) /\ writes' = writes
<1>1. PICK statements \in 1..5 : db' = [db EXCEPT ![d] = WipedAfter(@, statements)]
  BY DEF KilledInReset
<1>2. /\ db[d] \in StatesUpTo(writes) /\ writes \in Nat /\ writes' = writes
      /\ db \in [Devices -> StatesUpTo(writes)]
  BY TutorAssumption DEF Bounded, KilledInReset
<1> DEFINE new == WipedAfter(db[d], statements)
<1>3. /\ new \in StatesUpTo(writes) /\ new.reset \in {db[d].reset, 0}
      /\ \A c \in Cards : new.cards[c] \in {db[d].cards[c], NoCard}
  BY <1>2, WipedType
<1>4. db' = [db EXCEPT ![d] = new]
  BY <1>1
<1> HIDE DEF new
<1> QED BY <1>2, <1>3, <1>4 DEF KilledInReset, StudiedAt, Unerased, Bounded, ghosts

\* Whatever the learner does changes the device's own state, and removes
\* cards, keeps them, or writes new ones.
LEMMA StudyType ==
  ASSUME Bounded, NEW d \in Devices, Study(d)
  PROVE  /\ StudiedAt(d)
         /\ resets' \in 0..MaxResets /\ kills' \in 0..MaxKills
         /\ wiped' \in [Devices -> SUBSET (Cards \X CardRows(1..writes))]
         /\ \/ Unerased(d)
            \/ /\ \A c \in Cards : db'[d].cards[c] = NoCard
               /\ \A e \in Devices \ {d} : wiped'[e] = wiped[e]
<1>0. /\ resets \in 0..MaxResets /\ kills \in 0..MaxKills
      /\ wiped \in [Devices -> SUBSET (Cards \X CardRows(1..writes))]
  BY DEF Bounded
<1>1. CASE KilledInReset(d)
  <2>1. resets' \in 0..MaxResets /\ kills' \in 0..MaxKills
    BY <1>0, <1>1, TutorAssumption DEF KilledInReset
  <2> QED BY <1>0, <1>1, <2>1, KilledType DEF Unerased
<1>2. ASSUME NEW ws \in SUBSET Words, SeedKnownVocab(d, ws)
      PROVE  StudiedAt(d) /\ Unerased(d) /\ UNCHANGED <<resets, kills>>
  BY <1>2, SeedVocabType
<1>3. ASSUME NEW now \in Epochs, SubmitGlyphs(d, now) \/ SubmitWord(d, now)
      PROVE  StudiedAt(d) /\ Unerased(d) /\ UNCHANGED <<resets, kills>>
  <2>1. \E track \in {"glyph", "word"}, cs \in SUBSET Cards, grade \in Grades :
          SubmitReview(d, track, cs, grade, now)
    BY <1>3 DEF SubmitGlyphs, SubmitWord, Cards
  <2> QED BY <2>1, ReviewType
<1>4. ASSUME NEW now \in Epochs, SeedKnownAlphabet(d, now)
      PROVE  StudiedAt(d) /\ Unerased(d) /\ UNCHANGED <<resets, kills>>
  BY <1>4, SeedAlphabetType
<1>5. ASSUME NEW now \in Epochs, NEW k \in Concepts, ExplainConcept(d, k, now)
      PROVE  StudiedAt(d) /\ Unerased(d) /\ UNCHANGED <<resets, kills>>
  BY <1>5, ExplainType
<1>6. ASSUME NEW now \in Epochs, ResetTutor(d, now)
      PROVE  /\ StudiedAt(d)
             /\ resets' \in 0..MaxResets /\ kills' \in 0..MaxKills
             /\ wiped' \in [Devices -> SUBSET (Cards \X CardRows(1..writes))]
             /\ \A c \in Cards : db'[d].cards[c] = NoCard
             /\ \A e \in Devices \ {d} : wiped'[e] = wiped[e]
  <2>1. resets' \in 0..MaxResets /\ kills' \in 0..MaxKills
    BY <1>0, <1>6, TutorAssumption DEF ResetTutor
  <2> QED BY <1>6, <2>1, ResetType
<1>7. CASE StudiedAt(d) /\ Unerased(d) /\ UNCHANGED <<resets, kills>>
  BY <1>0, <1>7 DEF Unerased
<1> QED BY <1>1, <1>2, <1>3, <1>4, <1>5, <1>6, <1>7 DEF Study

\* Every step does to the rounds what SnapshotRounds says, and its new states
\* of the server and the devices come from the writes.
LEMMA StepRounds ==
  ASSUME NEW n \in Nat, n = writes, Bounded, [Next]_vars
  PROVE  /\ RoundStep(StatesUpTo(n))
         /\ server' \in StatesUpTo(n)
         /\ (\E d \in Devices : Study(d)) \/ /\ UNCHANGED <<counters, ghosts>>
                                             /\ db' \in [Devices -> StatesUpTo(n)]
<1> DEFINE S == StatesUpTo(n)
<1>0. RoundsTypeOK(S) /\ server \in S /\ db \in [Devices -> S]
  BY DEF Bounded
<1>1. ASSUME NEW d \in Devices, Study(d) PROVE RoundStep(S) /\ server' \in S
  <2>1. UNCHANGED <<server, round, wire>>
    BY <1>1, StudyType DEF StudiedAt, syncVars
  <2> QED BY <1>0, <2>1 DEF RoundStep, roundVars
<1>2. ASSUME NEW d \in Devices, StartRound(d)
      PROVE  /\ RoundStep(S) /\ server' \in S /\ UNCHANGED <<counters, ghosts>>
             /\ db' \in [Devices -> S]
  <2>1. db[d] \in S /\ Post(d, db[d])
    BY <1>0, <1>2 DEF StartRound
  <2> QED BY <1>0, <1>2, <2>1 DEF StartRound, RoundStep
<1>3. ASSUME NEW q \in wire, HandlePost(q)
      PROVE  /\ RoundStep(S) /\ server' \in S /\ UNCHANGED <<counters, ghosts>>
             /\ db' \in [Devices -> S]
  <2>1. q.body \in S
    BY <1>0 DEF RoundsTypeOK
  <2>2. server' \in S /\ Answer(q, server')
    BY <1>0, <1>3, <2>1, MergeTutorType DEF HandlePost
  <2> HIDE DEF S
  <2> QED BY <1>0, <1>3, <2>2 DEF RoundStep, HandlePost
<1>4. ASSUME NEW d \in Devices, MergeAnswer(d)
      PROVE  /\ RoundStep(S) /\ server' \in S /\ UNCHANGED <<counters, ghosts>>
             /\ db' \in [Devices -> S]
  <2>1. round[d].answer \in S
    <3> HIDE DEF S
    <3> QED BY <1>0, <1>4, RoundShapes DEF MergeAnswer
  <2>2. MergeTutor(db[d], round[d].answer) \in S
    BY <1>0, <2>1, MergeTutorType
  <2> HIDE DEF S
  <2> QED BY <1>0, <1>4, <2>2 DEF MergeAnswer, RoundStep
<1>5. ASSUME NEW d \in Devices, Disconnect(d)
      PROVE  /\ RoundStep(S) /\ server' \in S /\ UNCHANGED <<counters, ghosts>>
             /\ db' \in [Devices -> S]
  BY <1>0, <1>5 DEF Disconnect, RoundStep
<1>6. ASSUME UNCHANGED vars
      PROVE  /\ RoundStep(S) /\ server' \in S /\ UNCHANGED <<counters, ghosts>>
             /\ db' \in [Devices -> S]
  BY <1>0, <1>6 DEF vars, RoundStep, roundVars, counters, ghosts
<1> QED BY <1>1, <1>2, <1>3, <1>4, <1>5, <1>6 DEF Next

\* The bounds and the types are inductive.
LEMMA StepType ==
  ASSUME Bounded, Connected, [Next]_vars
  PROVE  Bounded' /\ Connected'
<1> SUFFICES ASSUME NEW n \in Nat, n = writes PROVE Bounded' /\ Connected'
  BY DEF Bounded
<1>1. /\ RoundsTypeOK(StatesUpTo(n))' /\ Connected'
      /\ server' \in StatesUpTo(n)
  BY StepRounds, RoundStepType, RoundStepConnected DEF Bounded
<1>2. ASSUME NEW d \in Devices, Study(d) PROVE Bounded'
  <2>1. /\ writes' \in 0..MaxWrites /\ writes <= writes'
        /\ db' \in [Devices -> StatesUpTo(writes')]
        /\ history' \in [Cards -> [Writes -> SUBSET Writes]]
        /\ resets' \in 0..MaxResets /\ kills' \in 0..MaxKills
        /\ wiped' \in [Devices -> SUBSET (Cards \X CardRows(1..n))]
    BY <1>2, StudyType DEF StudiedAt
  <2>2. StatesUpTo(n) \subseteq StatesUpTo(writes') /\ CardRows(1..n) \subseteq CardRows(1..writes')
    BY <2>1, MoreStates
  <2>3. RoundsTypeOK(StatesUpTo(writes))'
    <3>1. /\ wire' \subseteq [dev : Devices, body : StatesUpTo(n), live : BOOLEAN]
          /\ round' \in [Devices -> {NoRound}
               \cup [phase : {"waiting"}, try : 1..Addresses, body : StatesUpTo(n)]
               \cup [phase : {"answered"}, body : StatesUpTo(n), answer : StatesUpTo(n)]]
      BY <1>1 DEF RoundsTypeOK
    <3> QED BY <2>2, <3>1 DEF RoundsTypeOK
  <2>4. wiped' \in [Devices -> SUBSET (Cards \X CardRows(1..writes'))]
    BY <2>1, <2>2
  <2> QED BY <1>1, <2>1, <2>2, <2>3, <2>4 DEF Bounded
<1>3. CASE UNCHANGED <<counters, ghosts>> /\ db' \in [Devices -> StatesUpTo(n)]
  <2>1. writes' = n /\ UNCHANGED <<writes, resets, kills, history, wiped>>
    BY <1>3 DEF counters, ghosts
  <2>2. RoundsTypeOK(StatesUpTo(writes))'
    BY <1>1, <2>1 DEF RoundsTypeOK
  <2>3. server' \in StatesUpTo(writes') /\ db' \in [Devices -> StatesUpTo(writes')]
    BY <1>1, <1>3, <2>1
  <2>4. /\ writes' \in 0..MaxWrites /\ resets' \in 0..MaxResets /\ kills' \in 0..MaxKills
        /\ history' \in [Cards -> [Writes -> SUBSET Writes]]
        /\ wiped' \in [Devices -> SUBSET (Cards \X CardRows(1..writes'))]
    <3>1. /\ writes \in 0..MaxWrites /\ resets \in 0..MaxResets /\ kills \in 0..MaxKills
          /\ history \in [Cards -> [Writes -> SUBSET Writes]]
          /\ wiped \in [Devices -> SUBSET (Cards \X CardRows(1..writes))]
      BY DEF Bounded
    <3> QED BY <2>1, <3>1
  <2> QED BY <1>1, <2>2, <2>3, <2>4 DEF Bounded
<1> QED BY <1>1, <1>2, <1>3, StepRounds

\* The first state is bounded, and nothing is under way in it.
LEMMA InitType == Init => Bounded /\ Connected
<1> SUFFICES ASSUME Init PROVE Bounded /\ Connected
  OBVIOUS
<1>1. Blank \in StatesUpTo(0)
  BY DEF Blank, StatesUpTo
<1>2. RoundsTypeOK(StatesUpTo(0)) /\ Connected
  BY DEF Init, RoundsInit, RoundsTypeOK, Connected
<1>3. history \in [Cards -> [Writes -> SUBSET Writes]]
  BY DEF Init
<1> QED BY <1>1, <1>2, <1>3, TutorAssumption DEF Bounded, Init

\* Type correctness: no write, merge or reset leaves its columns' types, and
\* cards come from writes that were made.
THEOREM TypeCorrect == Spec => []TypeOK
<1>1. Spec => [](Bounded /\ Connected)
  BY InitType, StepType, PTL DEF Spec
<1> QED BY <1>1, BoundedTypes, PTL

-----------------------------------------------------------------------------
(* Resets *)

\* The inductive invariant.
IInv == Bounded /\ Connected /\ ErasedStaysErased

\* What the device holds after a merge is dated at or after its reset, and
\* what it writes itself was never there before.
LEMMA StepErased ==
  ASSUME IInv, [Next]_vars
  PROVE  ErasedStaysErased'
<1> SUFFICES ASSUME NEW d \in Devices, NEW c \in Cards,
                    <<c, db'[d].cards[c]>> \in wiped'[d]
             PROVE  db'[d].cards[c].rev >= db'[d].reset
  BY DEF ErasedStaysErased
<1>0. /\ Bounded /\ writes \in Nat
      /\ wiped[d] \in SUBSET (Cards \X CardRows(1..writes))
      /\ db[d].reset \in Nat
      /\ \A e \in Devices : db[e] \in StatesUpTo(writes)
  BY StateParts DEF IInv, Bounded
<1>1. CASE db'[d] = db[d] /\ wiped'[d] = wiped[d]
  BY <1>1 DEF IInv, ErasedStaysErased
<1>2. ASSUME NEW e \in Devices, Study(e)
      PROVE  db'[d].cards[c].rev >= db'[d].reset
  <2>1. /\ StudiedAt(e)
        /\ wiped' \in [Devices -> SUBSET (Cards \X CardRows(1..writes))]
        /\ \/ Unerased(e)
           \/ /\ \A k \in Cards : db'[e].cards[k] = NoCard
              /\ \A f \in Devices \ {e} : wiped'[f] = wiped[f]
    BY <1>0, <1>2, StudyType
  <2>2. CASE e # d
    BY <1>1, <2>1, <2>2 DEF StudiedAt, Unerased
  <2>3. CASE e = d /\ Unerased(d)
    <3>1. db'[d].cards[c] \in CardRows(1..writes)
      BY <1>0, <2>3 DEF Unerased
    <3>2. db'[d].cards[c].val # writes + 1 /\ db'[d].cards[c] # NoCard
          /\ db'[d].cards[c].rev \in Nat
      BY <1>0, <3>1, NoCardIsNoRow DEF CardRows
    <3>3. db'[d].cards[c] = db[d].cards[c]
      BY <2>3, <3>2 DEF Unerased
    <3>4. db[d].cards[c].rev >= db[d].reset
      BY <2>3, <3>3 DEF Unerased, IInv, ErasedStaysErased
    <3> QED BY <1>0, <2>3, <3>2, <3>3, <3>4 DEF Unerased
  <2>4. CASE e = d /\ \A k \in Cards : db'[e].cards[k] = NoCard
    <3>1. NoCard \in CardRows(1..writes)
      BY <2>1, <2>4
    <3> QED BY <1>0, <3>1, NoCardIsNoRow
  <2> QED BY <2>1, <2>2, <2>3, <2>4
<1>3. ASSUME MergeAnswer(d)
      PROVE  db'[d].cards[c].rev >= db'[d].reset
  <2>1. db[d] \in StatesUpTo(writes) /\ round[d].answer \in StatesUpTo(writes)
    BY <1>0, <1>3, RoundShapes DEF MergeAnswer, Bounded
  <2>2. db'[d] = MergeTutor(db[d], round[d].answer) /\ wiped' = wiped
    BY <1>0, <1>3 DEF MergeAnswer, Bounded, ghosts
  <2>3. db'[d].cards[c] # NoCard
    BY <1>0, <2>2, NoCardIsNoRow
  <2> QED BY <1>0, <2>1, <2>2, <2>3, MergeTutorType
<1>4. CASE \E e \in Devices : StartRound(e) \/ Disconnect(e)
  BY <1>1, <1>4 DEF StartRound, Disconnect, ghosts
<1>5. CASE \E e \in Devices \ {d} : MergeAnswer(e)
  BY <1>0, <1>1, <1>5 DEF MergeAnswer, ghosts, Bounded
<1>6. CASE \E q \in wire : HandlePost(q)
  BY <1>1, <1>6 DEF HandlePost, ghosts
<1>7. CASE UNCHANGED vars
  BY <1>1, <1>7 DEF vars
<1> QED BY <1>2, <1>3, <1>4, <1>5, <1>6, <1>7 DEF Next

\* Whatever comes back from the server or from other devices, however late,
\* a reset is not undone by anything dated before it.
THEOREM ResetCorrect == Spec => []ErasedStaysErased
<1>1. Init => IInv
  BY InitType DEF IInv, Init, ErasedStaysErased
<1>2. IInv /\ [Next]_vars => IInv'
  BY StepType, StepErased DEF IInv
<1>3. IInv => ErasedStaysErased
  BY DEF IInv
<1> QED BY <1>1, <1>2, <1>3, PTL DEF Spec

\* Work dated at or after the resets of both sides survives every merge of
\* the server's and of the devices' databases.
THEOREM MergesCorrect == Spec => MergesKeepWork
<1> DEFINE KeepStep == /\ Keeps(server, server')
                       /\ \A d \in Devices : MergeAnswer(d) => Keeps(db[d], db'[d])
<1>1. Spec => [](Bounded /\ Connected)
  BY InitType, StepType, PTL DEF Spec
<1>2. Bounded /\ Connected /\ [Next]_vars => KeepStep
  <2> SUFFICES ASSUME Bounded, Connected, [Next]_vars PROVE KeepStep
    OBVIOUS
  <2>0. /\ writes \in Nat /\ server \in StatesUpTo(writes)
        /\ db \in [Devices -> StatesUpTo(writes)]
        /\ RoundsTypeOK(StatesUpTo(writes))
    BY DEF Bounded
  <2>1. ASSUME NEW d \in Devices, MergeAnswer(d) PROVE Keeps(db[d], db'[d])
    <3>1. round[d].answer \in StatesUpTo(writes)
      BY <2>0, <2>1, RoundShapes DEF MergeAnswer
    <3>2. db'[d] = MergeTutor(db[d], round[d].answer)
      BY <2>0, <2>1 DEF MergeAnswer
    <3> QED BY <2>0, <3>1, <3>2, MergeKeeps
  <2>2. Keeps(server, server')
    <3>1. CASE server' = server
      BY <2>0, <3>1, SameKeeps
    <3>2. ASSUME NEW q \in wire, HandlePost(q) PROVE Keeps(server, server')
      <4>1. q.body \in StatesUpTo(writes)
        BY <2>0 DEF RoundsTypeOK
      <4> QED BY <2>0, <3>2, <4>1, MergeKeeps DEF HandlePost
    <3>3. ASSUME NEW d \in Devices, Study(d) PROVE server' = server
      BY <3>3, StudyType DEF StudiedAt, syncVars
    <3> QED BY <3>1, <3>2, <3>3 DEF Next, StartRound, MergeAnswer, Disconnect, vars
  <2> QED BY <2>1, <2>2
<1> QED BY <1>1, <1>2, PTL DEF Spec, MergesKeepWork
-----------------------------------------------------------------------------
(* Agreement *)

\* What a merge makes of each card, answer and explanation, and its reset.
LEMMA MergeParts ==
  ASSUME NEW n \in Nat, NEW s \in StatesUpTo(n), NEW t \in StatesUpTo(n),
         NEW r, r = LaterReset(s, t)
  PROVE  /\ MergeTutor(s, t) \in StatesUpTo(n) /\ MergeTutor(s, t).reset = r
         /\ r \in Nat /\ r >= s.reset /\ r >= t.reset
         /\ \A c \in Cards : MergeTutor(s, t).cards[c] =
              MergeCard(IF s.cards[c] # NoCard /\ s.cards[c].rev < r THEN NoCard ELSE s.cards[c],
                        IF t.cards[c] # NoCard /\ t.cards[c].rev < r THEN NoCard ELSE t.cards[c])
         /\ \A a \in Answers : MergeTutor(s, t).log[a] =
              IF a[1] < r THEN 0 ELSE MergeCount(s.log[a], t.log[a])
         /\ \A k \in Concepts : MergeTutor(s, t).seen[k] =
              MergeEpoch(IF s.seen[k] < r THEN Unseen ELSE s.seen[k],
                         IF t.seen[k] < r THEN Unseen ELSE t.seen[k])
<1> DEFINE x == Surviving(s, r)
           y == Surviving(t, r)
<1>1. r \in Nat /\ r >= s.reset /\ r >= t.reset
  BY DEF LaterReset, StatesUpTo
<1>2. /\ x \in StatesUpTo(n) /\ x.reset = r
      /\ \A c \in Cards : x.cards[c] =
           IF s.cards[c] # NoCard /\ s.cards[c].rev < r THEN NoCard ELSE s.cards[c]
      /\ \A a \in Answers : x.log[a] = IF a[1] < r THEN 0 ELSE s.log[a]
      /\ \A k \in Concepts : x.seen[k] = IF s.seen[k] < r THEN Unseen ELSE s.seen[k]
  BY <1>1, SurvivingType, SMTT(30)
<1>3. /\ y \in StatesUpTo(n) /\ y.reset = r
      /\ \A c \in Cards : y.cards[c] =
           IF t.cards[c] # NoCard /\ t.cards[c].rev < r THEN NoCard ELSE t.cards[c]
      /\ \A a \in Answers : y.log[a] = IF a[1] < r THEN 0 ELSE t.log[a]
      /\ \A k \in Concepts : y.seen[k] = IF t.seen[k] < r THEN Unseen ELSE t.seen[k]
  BY <1>1, SurvivingType, SMTT(30)
<1>4. /\ MergeTutor(s, t) = UnionTutor(x, y)
      /\ MergeTutor(s, t) \in StatesUpTo(n) /\ MergeTutor(s, t).reset = r
  BY MergeTutorType DEF MergeTutor
<1> HIDE DEF x, y
<1>5. /\ \A c \in Cards : MergeTutor(s, t).cards[c] = MergeCard(x.cards[c], y.cards[c])
      /\ \A a \in Answers : MergeTutor(s, t).log[a] = MergeCount(x.log[a], y.log[a])
      /\ \A k \in Concepts : MergeTutor(s, t).seen[k] = MergeEpoch(x.seen[k], y.seen[k])
  BY <1>2, <1>3, <1>4, UnionType
<1>6. \A a \in Answers : MergeTutor(s, t).log[a] =
        IF a[1] < r THEN 0 ELSE MergeCount(s.log[a], t.log[a])
  BY <1>2, <1>3, <1>5 DEF MergeCount
<1>7. \A c \in Cards : MergeTutor(s, t).cards[c] =
        MergeCard(IF s.cards[c] # NoCard /\ s.cards[c].rev < r THEN NoCard ELSE s.cards[c],
                  IF t.cards[c] # NoCard /\ t.cards[c].rev < r THEN NoCard ELSE t.cards[c])
  BY <1>2, <1>3, <1>5 DEF MergeCard
<1>8. \A k \in Concepts : MergeTutor(s, t).seen[k] =
        MergeEpoch(IF s.seen[k] < r THEN Unseen ELSE s.seen[k],
                   IF t.seen[k] < r THEN Unseen ELSE t.seen[k])
  BY <1>2, <1>3, <1>5 DEF MergeEpoch
<1> QED BY <1>1, <1>4, <1>6, <1>7, <1>8

\* What a merge leaves holds nothing dated before its reset.
LEMMA MergeClears ==
  ASSUME NEW n \in Nat, NEW s \in StatesUpTo(n), NEW t \in StatesUpTo(n)
  PROVE  HoldsNothingBeforeReset(MergeTutor(s, t))
<1> DEFINE m == MergeTutor(s, t)
<1>0. PICK r : r = LaterReset(s, t)
  OBVIOUS
<1>1. /\ m.reset = r /\ r \in Nat
      /\ \A c \in Cards : m.cards[c] # NoCard => m.cards[c].rev >= r
      /\ \A a \in Answers : m.log[a] =
              IF a[1] < r THEN 0 ELSE MergeCount(s.log[a], t.log[a])
      /\ \A k \in Concepts : m.seen[k] =
              MergeEpoch(IF s.seen[k] < r THEN Unseen ELSE s.seen[k],
                         IF t.seen[k] < r THEN Unseen ELSE t.seen[k])
  BY <1>0, MergeParts, MergeTutorType
<1> HIDE DEF m
<1>2. ASSUME NEW a \in Answers, m.log[a] > 0 PROVE a[1] >= r
  <2>1. a[1] \in Nat
    BY DEF Answers, Epochs
  <2> QED BY <1>1, <1>2, <2>1
<1>3. ASSUME NEW k \in Concepts, m.seen[k] # Unseen PROVE m.seen[k] >= r
  <2>1. s.seen[k] \in Int /\ t.seen[k] \in Int
    BY DEF StatesUpTo, Epochs, Unseen
  <2> QED BY <1>1, <1>3, <2>1 DEF MergeEpoch, Unseen
<1> QED BY <1>1, <1>2, <1>3 DEF HoldsNothingBeforeReset, m

\* Merging the answer into what was posted gives what was answered: of the two
\* sides of the first merge, neither has anything to add to the result.
LEMMA MergeSettles ==
  ASSUME NEW n \in Nat, NEW s \in StatesUpTo(n), NEW b \in StatesUpTo(n)
  PROVE  SameProgress(MergeTutor(b, MergeTutor(s, b)), MergeTutor(s, b))
<1>0. PICK r : r = LaterReset(s, b)
  OBVIOUS
<1> DEFINE A == MergeTutor(s, b)
           B == MergeTutor(b, A)
<1>1. /\ A \in StatesUpTo(n) /\ A.reset = r /\ r \in Nat /\ r >= b.reset
      /\ \A c \in Cards : A.cards[c] =
           MergeCard(IF s.cards[c] # NoCard /\ s.cards[c].rev < r THEN NoCard ELSE s.cards[c],
                     IF b.cards[c] # NoCard /\ b.cards[c].rev < r THEN NoCard ELSE b.cards[c])
      /\ \A a \in Answers : A.log[a] =
           IF a[1] < r THEN 0 ELSE MergeCount(s.log[a], b.log[a])
      /\ \A k \in Concepts : A.seen[k] =
           MergeEpoch(IF s.seen[k] < r THEN Unseen ELSE s.seen[k],
                      IF b.seen[k] < r THEN Unseen ELSE b.seen[k])
  BY <1>0, MergeParts
<1> HIDE DEF A
<1>2. LaterReset(b, A) = r
  BY <1>1 DEF LaterReset, StatesUpTo
<1>3. /\ B \in StatesUpTo(n) /\ B.reset = r
      /\ \A c \in Cards : B.cards[c] =
           MergeCard(IF b.cards[c] # NoCard /\ b.cards[c].rev < r THEN NoCard ELSE b.cards[c],
                     IF A.cards[c] # NoCard /\ A.cards[c].rev < r THEN NoCard ELSE A.cards[c])
      /\ \A a \in Answers : B.log[a] =
           IF a[1] < r THEN 0 ELSE MergeCount(b.log[a], A.log[a])
      /\ \A k \in Concepts : B.seen[k] =
           MergeEpoch(IF b.seen[k] < r THEN Unseen ELSE b.seen[k],
                      IF A.seen[k] < r THEN Unseen ELSE A.seen[k])
  BY <1>1, <1>2, MergeParts
<1> HIDE DEF B
<1>4. ASSUME NEW c \in Cards PROVE CardRank(B.cards[c]) = CardRank(A.cards[c])
  <2>1. /\ s.cards[c] # NoCard => s.cards[c].rev \in Nat /\ s.cards[c].reps \in Nat
        /\ b.cards[c] # NoCard => b.cards[c].rev \in Nat /\ b.cards[c].reps \in Nat
    BY DEF StatesUpTo, CardRows
  <2> DEFINE u == IF s.cards[c] # NoCard /\ s.cards[c].rev < r THEN NoCard ELSE s.cards[c]
             v == IF b.cards[c] # NoCard /\ b.cards[c].rev < r THEN NoCard ELSE b.cards[c]
  <2>2. /\ u # NoCard => u.rev \in Nat /\ u.reps \in Nat /\ ~(u.rev < r)
        /\ v # NoCard => v.rev \in Nat /\ v.reps \in Nat /\ ~(v.rev < r)
    BY <2>1
  <2>3. /\ A.cards[c] = MergeCard(u, v)
        /\ B.cards[c] = MergeCard(v, IF A.cards[c] # NoCard /\ A.cards[c].rev < r
                                     THEN NoCard ELSE A.cards[c])
    BY <1>1, <1>3
  <2> HIDE DEF u, v
  <2>4. A.cards[c] \in {u, v}
    BY <2>3 DEF MergeCard
  <2>5. B.cards[c] = MergeCard(v, A.cards[c])
    BY <2>2, <2>3, <2>4
  <2> QED BY <2>2, <2>3, <2>5 DEF MergeCard, OutranksCard, CardRank
<1>5. ASSUME NEW k \in Concepts PROVE B.seen[k] = A.seen[k]
  <2>1. s.seen[k] \in Int /\ b.seen[k] \in Int
    BY DEF StatesUpTo, Epochs, Unseen
  <2> QED BY <1>1, <1>3, <2>1 DEF MergeEpoch, Unseen
<1>6. B.seen = A.seen
  BY <1>1, <1>3, <1>5 DEF StatesUpTo
<1>7. ASSUME NEW a \in Answers PROVE (B.log[a] > 0) = (A.log[a] > 0)
  <2>1. s.log[a] \in Nat /\ b.log[a] \in Nat
    BY DEF StatesUpTo
  <2>2. A.log[a] = 0 <=> B.log[a] = 0
    BY <1>1, <1>3, <2>1 DEF MergeCount
  <2>3. A.log[a] \in Nat /\ B.log[a] \in Nat
    BY <1>1, <1>3 DEF StatesUpTo
  <2> QED BY <2>2, <2>3
<1> QED BY <1>1, <1>3, <1>4, <1>6, <1>7 DEF SameProgress, A, B

\* An answer is what the server's state and the posted one merged to.
AnswersAreMerges ==
  \A d \in Devices : Answered(d) =>
    \E s \in StatesUpTo(writes) : round[d].answer = MergeTutor(s, round[d].body)

\* Only the server answers, and it merges before it does.
LEMMA StepAnswers ==
  ASSUME Bounded, Connected, AnswersAreMerges, [Next]_vars
  PROVE  AnswersAreMerges'
<1> SUFFICES ASSUME NEW d \in Devices, Answered(d)'
             PROVE  \E s \in StatesUpTo(writes') : round'[d].answer = MergeTutor(s, round'[d].body)
  BY DEF AnswersAreMerges
<1>0. /\ writes \in Nat /\ server \in StatesUpTo(writes) /\ RoundsTypeOK(StatesUpTo(writes))
  BY DEF Bounded
<1>1. CASE Answered(d) /\ round'[d] = round[d]
  <2>1. writes' \in Nat /\ writes <= writes'
    BY <1>0, StepRounds, StudyType DEF StudiedAt, counters
  <2>2. StatesUpTo(writes) \subseteq StatesUpTo(writes')
    BY <1>0, <2>1, MoreStates
  <2> QED BY <1>1, <2>2 DEF AnswersAreMerges
<1>2. ASSUME NEW q \in wire, HandlePost(q)
      PROVE  \E s \in StatesUpTo(writes') : round'[d].answer = MergeTutor(s, round'[d].body)
  <2>1. q.dev \in Devices /\ writes' = writes
    BY <1>0, <1>2 DEF RoundsTypeOK, HandlePost, counters
  <2>2. CASE round'[d] = round[d]
    BY <1>1, <2>2 DEF Answered
  <2>3. CASE round'[d] # round[d]
    <3>1. /\ q.live /\ q.dev = d
          /\ round'[d] = [phase |-> "answered", body |-> round[d].body, answer |-> server']
      BY <1>0, <1>2, <2>3 DEF HandlePost, Answer, RoundsTypeOK
    <3>2. q.body = round[d].body /\ server' = MergeTutor(server, q.body)
      BY <1>2, <3>1 DEF Connected, HandlePost
    <3> QED BY <1>0, <2>1, <3>1, <3>2
  <2> QED BY <2>2, <2>3
<1>3. CASE \/ \E e \in Devices : (\E body : Post(e, body)) \/ TryNextAddress(e)
                                 \/ GiveUp(e) \/ Conclude(e)
           \/ UNCHANGED roundVars
  BY <1>0, <1>1, <1>3, NoAnswerKeepsAnswers
<1>4. CASE \E e \in Devices : Study(e)
  BY <1>3, <1>4, StudyType DEF StudiedAt, syncVars, roundVars
<1>5. CASE \E e \in Devices : StartRound(e) \/ MergeAnswer(e) \/ Disconnect(e)
  BY <1>3, <1>5 DEF StartRound, MergeAnswer, Disconnect
<1>6. CASE UNCHANGED vars
  BY <1>3, <1>6 DEF vars, roundVars
<1> QED BY <1>2, <1>4, <1>5, <1>6 DEF Next

\* One round settles: a device where nothing was done meanwhile ends it with
\* the progress that the server answered with.
THEOREM AgreementCorrect == Spec => RoundsSettle
<1> DEFINE AgInv == Bounded /\ Connected /\ AnswersAreMerges
           Settled(d) == /\ SameProgress(db'[d], round[d].answer)
                         /\ HoldsNothingBeforeReset(db'[d])
<1>1. Init => AgInv
  BY InitType DEF Init, RoundsInit, AnswersAreMerges, Answered, NoRound
<1>2. AgInv /\ [Next]_vars => AgInv'
  BY StepType, StepAnswers
<1>3. AgInv => \A d \in Devices : MergeAnswer(d) /\ db[d] = round[d].body => Settled(d)
  <2> SUFFICES ASSUME AgInv, NEW d \in Devices, MergeAnswer(d), db[d] = round[d].body
               PROVE  Settled(d)
    OBVIOUS
  <2>0. writes \in Nat /\ db \in [Devices -> StatesUpTo(writes)]
    BY DEF Bounded
  <2>1. PICK s \in StatesUpTo(writes) : round[d].answer = MergeTutor(s, db[d])
    BY DEF MergeAnswer, AnswersAreMerges
  <2>2. db'[d] = MergeTutor(db[d], MergeTutor(s, db[d]))
    BY <2>0, <2>1 DEF MergeAnswer
  <2>3. db[d] \in StatesUpTo(writes) /\ MergeTutor(s, db[d]) \in StatesUpTo(writes)
    BY <2>0, MergeTutorType
  <2> QED BY <2>0, <2>1, <2>2, <2>3, MergeSettles, MergeClears
<1> QED BY <1>1, <1>2, <1>3, PTL DEF Spec, RoundsSettle
=============================================================================
