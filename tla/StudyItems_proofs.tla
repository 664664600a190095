------------------------- MODULE StudyItems_proofs --------------------------
(***************************************************************************)
(* Proofs about Readability, for any corpus, any folding of its spellings  *)
(* and any number of mishaps; that the tutor's choice implements it, for   *)
(* any curriculum and pace, so that what is proved of the readability      *)
(* cache holds with the real choice of items; that words are met in order, *)
(* and that a call that drops its target does not drop the next.           *)
(***************************************************************************)
EXTENDS StudyItems, FiniteSetTheorems, WellFoundedInduction, TLAPS

Caches == [stamp : BOOLEAN, full : BOOLEAN, marked : SUBSET Hebrew,
           unknown : Counts \cup {NoRows}]
Cards == [Surfaces -> Card]

-----------------------------------------------------------------------------
(* Counting *)

\* The unknown words of a verse are finitely many.
LEMMA KeysFinite ==
  ASSUME NEW S, NEW v \in Verses, S \subseteq Words[v]
  PROVE  IsFiniteSet({Vkey[s] : s \in S})
<1>1. {Vkey[s] : s \in S} \subseteq Surfaces
  BY ReadabilityAssumption
<1> QED BY <1>1, ReadabilityAssumption, FS_Subset

\* Both counts are numbers.
LEMMA UnknownType ==
  ASSUME NEW marked, NEW v \in Verses
  PROVE  Unlearnt(marked, v) \in Nat /\ Unknown(marked, v) \in Nat
<1>1. IsFiniteSet({Vkey[s] : s \in (Words[v] \cap Hebrew) \ marked})
  <2> DEFINE S == (Words[v] \cap Hebrew) \ marked
  <2>1. S \subseteq Words[v]
    OBVIOUS
  <2> HIDE DEF S
  <2>2. IsFiniteSet({Vkey[s] : s \in S})
    BY <2>1, KeysFinite
  <2> QED BY <2>2 DEF S
<1>2. Unlearnt(marked, v) \in Nat
  BY <1>1, FS_CardinalityType DEF Unlearnt
<1>3. IsFiniteSet(Words[v] \cap Aramaic)
  BY ReadabilityAssumption, FS_Subset
<1>4. Cardinality(Words[v] \cap Aramaic) \in Nat
  BY <1>3, FS_CardinalityType
<1> QED BY <1>2, <1>4 DEF Unknown

\* In a verse without Aramaic both are the words not marked.
LEMMA StudiedCounts ==
  ASSUME NEW marked, NEW v \in Studied
  PROVE  /\ v \in Verses /\ Words[v] \subseteq Hebrew
         /\ Unlearnt(marked, v) = Cardinality({Vkey[s] : s \in Words[v] \ marked})
         /\ Unknown(marked, v) = Unlearnt(marked, v)
<1>1. v \in Verses /\ Words[v] \subseteq Hebrew /\ Words[v] \cap Aramaic = {}
  BY ReadabilityAssumption DEF Studied, Hebrew
<1>2. (Words[v] \cap Hebrew) \ marked = Words[v] \ marked
  BY <1>1
<1>3. Cardinality(Words[v] \cap Aramaic) = 0
  BY <1>1, FS_EmptySet
<1>4. Unknown(marked, v) = Unlearnt(marked, v)
  BY <1>1, <1>3, UnknownType DEF Unknown
<1> QED BY <1>1, <1>2, <1>4 DEF Unlearnt

\* Done surfaces are Hebrew ones.
LEMMA DoneSurfaces ==
  ASSUME NEW cards
  PROVE  /\ Done(cards) \subseteq Hebrew
         /\ IsFiniteSet(Done(cards))
<1>1. Done(cards) \subseteq Hebrew /\ Hebrew \subseteq Surfaces
  BY DEF Done, Twins, Hebrew
<1> QED BY <1>1, ReadabilityAssumption, FS_Subset

\* Knowing more does more.
LEMMA DoneGrows ==
  ASSUME NEW cards, NEW next,
         \A s \in Surfaces : cards[s] = "known" => next[s] = "known"
  PROVE  Done(cards) \subseteq Done(next)
BY DEF Done

\* A card known has its twins done.
LEMMA KnownTwins ==
  ASSUME NEW cards, NEW s \in Surfaces, cards[s] = "known"
  PROVE  Twins(s) \subseteq Done(cards)
BY DEF Done

\* Fewer marks than done surfaces, all of them done: equally many are the same.
LEMMA EquallyMany ==
  ASSUME NEW cards, NEW marked, marked \subseteq Done(cards),
         Cardinality(marked) = Cardinality(Done(cards))
  PROVE  marked = Done(cards)
BY DoneSurfaces, FS_Subset

-----------------------------------------------------------------------------
(* The cache *)

\* What a cache whose rows are all there says of the cards: its counts follow
\* its marks, unless a record was torn, and its marks are done surfaces, as
\* long as no card was ever taken away.
Exact(c) ==
  \A v \in Verses : c.unknown[v] \in {Unlearnt(c.marked, v), Unknown(c.marked, v)}
Sound(c, cards, isTorn, intact) ==
  /\ c \in Caches
  /\ c.stamp /\ c.full => /\ c.unknown \in Counts
                          /\ isTorn \/ Exact(c)
                          /\ intact => c.marked \subseteq Done(cards)

\* A rebuilt cache says what the cards say.
LEMMA RebuiltSound ==
  ASSUME NEW cards, NEW isTorn, NEW intact
  PROVE  /\ Sound(Rebuilt(cards), cards, isTorn, intact)
         /\ Rebuilt(cards).stamp /\ Rebuilt(cards).full
         /\ Rebuilt(cards).marked = Done(cards)
<1>1. [v \in Verses |-> Unknown(Done(cards), v)] \in Counts
  BY UnknownType DEF Counts
<1>2. Rebuilt(cards) \in Caches
  BY <1>1, DoneSurfaces DEF Rebuilt, Caches
<1>3. Exact(Rebuilt(cards))
  BY DEF Exact, Rebuilt
<1> QED BY <1>1, <1>2, <1>3 DEF Sound, Rebuilt

\* Once ensured, the cache is there in full, and exact if nothing was lost.
LEMMA EnsuredSound ==
  ASSUME NEW c, NEW cards, NEW isTorn, NEW intact, Sound(c, cards, isTorn, intact)
  PROVE  /\ Sound(Ensured(c, cards), cards, isTorn, intact)
         /\ Ensured(c, cards).stamp /\ Ensured(c, cards).full
         /\ intact => Ensured(c, cards).marked = Done(cards)
<1>1. CASE Accepts(c, cards)
  <2>1. c.stamp /\ c.full /\ Cardinality(c.marked) = Cardinality(Done(cards))
    BY <1>1 DEF Accepts
  <2>2. intact => c.marked = Done(cards)
    BY <2>1, EquallyMany DEF Sound
  <2> QED BY <1>1, <2>1, <2>2 DEF Ensured
<1>2. CASE ~Accepts(c, cards)
  BY <1>2, RebuiltSound DEF Ensured
<1> QED BY <1>1, <1>2

\* Knowing more leaves a cache sound.
LEMMA SoundGrows ==
  ASSUME NEW c, NEW cards, NEW next, NEW isTorn, NEW intact,
         Sound(c, cards, isTorn, intact), Done(cards) \subseteq Done(next)
  PROVE  Sound(c, next, isTorn, intact)
BY DEF Sound

\* Recording a word counts anew every verse whose count it changes.
LEMMA RecordedSound ==
  ASSUME NEW c, NEW cards, NEW isTorn, NEW intact, NEW s \in Surfaces,
         Sound(c, cards, isTorn, intact), c.stamp, c.full, cards[s] = "known"
  PROVE  Sound(Recorded(c, s), cards, isTorn, intact)
<1>1. CASE Twins(s) \subseteq c.marked
  BY <1>1 DEF Recorded
<1>2. CASE ~(Twins(s) \subseteq c.marked)
  <2> DEFINE m == c.marked \cup Twins(s)
             u == [v \in Verses |-> IF Words[v] \cap Twins(s) # {} THEN Unlearnt(m, v)
                                                                  ELSE c.unknown[v]]
  <2>1. c \in Caches /\ c.unknown \in Counts
    BY DEF Sound
  <2>2. Recorded(c, s) = [stamp |-> c.stamp, full |-> c.full, marked |-> m, unknown |-> u]
    BY <1>2, <2>1 DEF Recorded, Recalculated, Marked, Caches
  <2>3. m \in SUBSET Hebrew
    BY <2>1 DEF Caches, Twins
  <2>4. u \in Counts
    BY <2>1, UnknownType DEF Counts
  <2>5. ASSUME Exact(c), NEW v \in Verses
        PROVE  u[v] \in {Unlearnt(m, v), Unknown(m, v)}
    <3>1. CASE Words[v] \cap Twins(s) # {}
      BY <3>1
    <3>2. CASE Words[v] \cap Twins(s) = {}
      <4>1. (Words[v] \cap Hebrew) \ m = (Words[v] \cap Hebrew) \ c.marked
        BY <3>2
      <4>2. Unlearnt(m, v) = Unlearnt(c.marked, v) /\ Unknown(m, v) = Unknown(c.marked, v)
        BY <4>1 DEF Unlearnt, Unknown
      <4> QED BY <2>5, <3>2, <4>2 DEF Exact
    <3> QED BY <3>1, <3>2
  <2>6. intact => m \subseteq Done(cards)
    BY KnownTwins DEF Sound
  <2> HIDE DEF m, u
  <2>7. Recorded(c, s) \in Caches
    BY <2>1, <2>2, <2>3, <2>4 DEF Caches
  <2>8. isTorn \/ Exact(Recorded(c, s))
    BY <2>2, <2>5 DEF Sound, Exact
  <2> QED BY <2>2, <2>4, <2>6, <2>7, <2>8 DEF Sound
<1> QED BY <1>1, <1>2

\* Marking alone is sound where the counts need not follow.
LEMMA MarkedSound ==
  ASSUME NEW c, NEW cards, NEW isTorn, NEW intact, NEW s \in Surfaces,
         Sound(c, cards, isTorn, intact), c.stamp, c.full, cards[s] = "known"
  PROVE  Sound(Marked(c, s), cards, TRUE, intact)
<1> DEFINE m == c.marked \cup Twins(s)
<1>1. c \in Caches /\ c.unknown \in Counts
  BY DEF Sound
<1>2. m \in SUBSET Hebrew
  BY <1>1 DEF Caches, Twins
<1>3. intact => m \subseteq Done(cards)
  BY KnownTwins DEF Sound
<1>4. Marked(c, s) = [c EXCEPT !.marked = m]
  BY DEF Marked
<1> HIDE DEF m
<1>5. /\ Marked(c, s) \in Caches
      /\ Marked(c, s).marked = m
      /\ Marked(c, s).unknown = c.unknown
  BY <1>1, <1>2, <1>4 DEF Caches
<1> QED BY <1>1, <1>3, <1>5 DEF Sound

-----------------------------------------------------------------------------
(* Items *)

\* The cards of an item are those given, and perhaps a name seeded as known;
\* its cache is the one given, or that one ensured.
LEMMA ItemParts ==
  ASSUME NEW cards \in Cards, NEW c, NEW pin \in Studied \cup {NoVerse},
         NEW item \in NextItems(cards, c, pin)
  PROVE  /\ item.srs \in Cards
         /\ \A s \in Surfaces : cards[s] = "known" => item.srs[s] = "known"
         /\ item.cache \in {c, Ensured(c, cards)}
         /\ item.target \in Studied \cup {NoVerse}
         /\ item.reading \in Verses \cup {NoVerse}
<1>1. CASE item \in Reviews(cards, c, pin)
  BY <1>1 DEF Reviews, Item
<1>2. CASE item \in Lessons(cards, c, pin)
  <2> DEFINE e == Ensured(c, cards)
  <2>1. Pins(e, pin) \subseteq Studied \cup {NoVerse}
    BY DEF Pins, Unread
  <2>4. Studied \subseteq Verses
    BY DEF Studied
  <2>2. \/ \E v \in Pins(e, pin) : item = Item(cards, e, v, NoVerse)
        \/ \E s \in Fresh(cards, e), v \in Pins(e, pin) \cap Unread(e) :
             item = Item(IF s \in Names THEN [cards EXCEPT ![s] = "known"] ELSE cards,
                         e, v, NoVerse)
        \/ \E v \in Pins(e, pin) \ (Unread(e) \cup {NoVerse}) :
             item = Item(cards, e, NoVerse, v)
    BY <1>2 DEF Lessons
  <2>3. CASE \E s \in Fresh(cards, e), v \in Pins(e, pin) \cap Unread(e) :
               item = Item(IF s \in Names THEN [cards EXCEPT ![s] = "known"] ELSE cards,
                           e, v, NoVerse)
    <3>1. PICK s \in Fresh(cards, e), v \in Pins(e, pin) \cap Unread(e) :
            item = Item(IF s \in Names THEN [cards EXCEPT ![s] = "known"] ELSE cards,
                        e, v, NoVerse)
      BY <2>3
    <3>2. s \in Surfaces
      BY ReadabilityAssumption DEF Fresh, Studied
    <3>3. /\ [cards EXCEPT ![s] = "known"] \in Cards
          /\ \A t \in Surfaces : cards[t] = "known" => [cards EXCEPT ![s] = "known"][t] = "known"
      BY <3>2 DEF Cards, Card
    <3> QED BY <2>1, <3>1, <3>3 DEF Item
  <2> QED BY <2>1, <2>2, <2>3, <2>4 DEF Item
<1> QED BY <1>1, <1>2 DEF NextItems

\* An item keeps a sound cache sound.
LEMMA ItemSound ==
  ASSUME NEW cards \in Cards, NEW c, NEW isTorn, NEW intact, Sound(c, cards, isTorn, intact),
         NEW pin \in Studied \cup {NoVerse}, NEW item \in NextItems(cards, c, pin)
  PROVE  Sound(item.cache, item.srs, isTorn, intact)
<1>1. Sound(item.cache, cards, isTorn, intact)
  BY ItemParts, EnsuredSound
<1>2. Done(cards) \subseteq Done(item.srs)
  BY ItemParts, DoneGrows
<1> QED BY <1>1, <1>2, SoundGrows

-----------------------------------------------------------------------------
(* The inductive invariant *)

\* No card was taken away: none forgotten, merged, or lost to a reset cut short.
Intact == forgets = 0 /\ merges = 0

IInv ==
  /\ srs \in Cards
  /\ Sound(cache, srs, torn, Intact)
  /\ target \in Studied \cup {NoVerse}
  /\ reading \in Verses \cup {NoVerse}
  /\ forgets \in 0..MaxForgets /\ seeds \in 0..MaxSeeds /\ merges \in 0..MaxMerges
  /\ resets \in 0..MaxResets /\ kills \in 0..MaxKills
  /\ resetKnown \in BOOLEAN /\ torn \in BOOLEAN

\* It holds before the first launch.
LEMMA InitIInv == Init => IInv
<1> SUFFICES ASSUME Init PROVE IInv
  OBVIOUS
<1>1. cache \in Caches /\ ~cache.stamp
  BY DEF Init, Caches
<1>2. srs \in Cards
  BY DEF Init, Cards, Card
<1>3. Sound(cache, srs, torn, Intact)
  BY <1>1 DEF Sound
<1>4. \A n \in {MaxForgets, MaxSeeds, MaxMerges, MaxResets, MaxKills} : 0 \in 0..n
  BY ReadabilityAssumption
<1> QED BY <1>2, <1>3, <1>4 DEF Init, IInv

\* A review of a word leaves a card, known words known unless it was forgotten.
LEMMA GradedParts ==
  ASSUME srs \in Cards, NEW s \in Surfaces, NEW next \in {"learning", "known"}
  PROVE  /\ Graded(s, next) \in Cards
         /\ Graded(s, next)[s] = next
         /\ ~Forgets(s, next) => Done(srs) \subseteq Done(Graded(s, next))
<1>1. Graded(s, next) \in Cards /\ Graded(s, next)[s] = next
  BY DEF Graded, Cards, Card
<1>2. ~Forgets(s, next) =>
        \A t \in Surfaces : srs[t] = "known" => Graded(s, next)[t] = "known"
  BY DEF Forgets, Graded, Cards
<1> QED BY <1>1, <1>2, DoneGrows

\* A review keeps the invariant.
LEMMA ReviewInv ==
  ASSUME IInv, NEW s \in Surfaces, NEW next \in {"learning", "known"}, SubmitReview(s, next)
  PROVE  IInv'
<1> DEFINE cards == Graded(s, next)
           after == CacheAfter(s, next)
           pin   == IF Graduates(s, next) THEN NoVerse ELSE target
           intact == Intact /\ ~Forgets(s, next)
<1>1. PICK item \in NextItems(cards, after, pin) : Show(item)
  BY DEF SubmitReview
<1>2. cards \in Cards /\ cards[s] = next /\ (~Forgets(s, next) => Done(srs) \subseteq Done(cards))
  BY GradedParts DEF IInv
<1>3. Sound(cache, srs, torn, intact)
  BY DEF IInv, Sound
<1>4. Sound(cache, cards, torn, intact)
  BY <1>2, <1>3 DEF Sound
<1>5. Sound(after, cards, torn, intact)
  <2>1. CASE Graduates(s, next)
    <3> DEFINE e == Ensured(cache, srs)
    <3>1. Sound(e, srs, torn, intact) /\ e.stamp /\ e.full
      BY <1>3, EnsuredSound
    <3>2. ~Forgets(s, next) /\ cards[s] = "known"
      BY <1>2, <2>1 DEF Graduates, Forgets
    <3>3. Sound(e, cards, torn, intact)
      BY <1>2, <3>1, <3>2, SoundGrows
    <3>4. after = Recorded(e, s)
      BY <2>1 DEF CacheAfter
    <3> HIDE DEF e, cards, after, intact
    <3> QED BY <3>1, <3>2, <3>3, <3>4, RecordedSound
  <2>2. CASE ~Graduates(s, next)
    BY <1>4, <2>2 DEF CacheAfter
  <2> QED BY <2>1, <2>2
<1>6. pin \in Studied \cup {NoVerse}
  BY DEF IInv
<1> HIDE DEF cards, after, pin
<1>7. Sound(item.cache, item.srs, torn, intact)
  BY <1>1, <1>2, <1>5, <1>6, ItemSound
<1>8. /\ srs' = item.srs /\ cache' = item.cache
      /\ target' = item.target /\ reading' = item.reading
  BY <1>1 DEF Show
<1>9. /\ srs' \in Cards
      /\ target' \in Studied \cup {NoVerse} /\ reading' \in Verses \cup {NoVerse}
  BY <1>1, <1>2, <1>6, <1>8, ItemParts
<1>10. /\ forgets' = IF Forgets(s, next) THEN forgets + 1 ELSE forgets
       /\ Forgets(s, next) => forgets < MaxForgets
       /\ UNCHANGED <<resetKnown, seeds, merges, resets, kills, torn>>
  BY DEF SubmitReview
<1>11. forgets' \in 0..MaxForgets
  BY <1>10, ReadabilityAssumption DEF IInv
<1>12. Intact' => intact
  BY <1>10 DEF Intact, IInv
<1>13. Sound(cache', srs', torn', Intact')
  BY <1>7, <1>8, <1>10, <1>12 DEF Sound
<1> QED BY <1>9, <1>10, <1>11, <1>13 DEF IInv

\* A review cut short keeps it: what is missing is found by the counts.
LEMMA KilledInv ==
  ASSUME IInv, NEW s \in Surfaces, KilledInReview(s) \/ KilledInRecord(s)
  PROVE  IInv'
<1> DEFINE e == Ensured(cache, srs)
           cards == Graded(s, "known")
<1>1. /\ srs' = cards /\ reading' = NoVerse
      /\ kills < MaxKills /\ kills' = kills + 1
      /\ UNCHANGED <<target, resetKnown, forgets, seeds, merges, resets>>
      /\ \/ cache' = e /\ torn' = torn
         \/ cache' = Marked(e, s) /\ torn' = TRUE
  BY DEF KilledInReview, KilledInRecord, Killed
<1>2. cards \in Cards /\ cards[s] = "known" /\ Done(srs) \subseteq Done(cards)
  BY GradedParts DEF IInv, Forgets
<1>3. Sound(e, srs, torn, Intact) /\ e.stamp /\ e.full
  BY EnsuredSound DEF IInv
<1> HIDE DEF e, cards
<1>4. Sound(e, cards, torn, Intact)
  BY <1>2, <1>3, SoundGrows
<1>5. Sound(Marked(e, s), cards, TRUE, Intact)
  BY <1>2, <1>3, <1>4, MarkedSound
<1>6. Intact' = Intact
  BY <1>1 DEF Intact
<1>7. Sound(cache', srs', torn', Intact')
  BY <1>1, <1>4, <1>5, <1>6
<1>8. kills' \in 0..MaxKills
  BY <1>1, ReadabilityAssumption DEF IInv
<1> QED BY <1>1, <1>2, <1>7, <1>8 DEF IInv

\* A reset keeps it, in full or cut short.
LEMMA ResetInv ==
  ASSUME IInv, ResetTutor \/ KilledInReset
  PROVE  IInv'
<1>1. PICK statements \in 1..4 :
        /\ Reset(statements)
        /\ seeds' = seeds /\ merges' = merges /\ torn' = torn
        /\ \/ forgets' = forgets + 1 /\ forgets < MaxForgets
           \/ forgets' = forgets /\ statements = 4
        /\ resetKnown' \in BOOLEAN
        /\ kills' = kills \/ (kills < MaxKills /\ kills' = kills + 1)
  <2>1. CASE ResetTutor
    BY <2>1 DEF ResetTutor
  <2>2. CASE KilledInReset
    <3>1. PICK statements \in 1..4 :
            Reset(statements) /\ resetKnown' = (resetKnown /\ statements < 4)
      BY <2>2 DEF KilledInReset
    <3>2. resetKnown' \in BOOLEAN
      BY <3>1
    <3> QED BY <2>2, <3>1, <3>2 DEF KilledInReset, Killed
  <2> QED BY <2>1, <2>2
<1>2. cache \in Caches
  BY DEF IInv, Sound
<1>3. Wiped(statements) \in Caches
  BY <1>2 DEF Wiped, Caches
<1>4. srs' \in Cards
  BY <1>1 DEF Reset, Cards, Card
<1>5. Sound(cache', srs', torn', Intact')
  <2>1. cache' = Wiped(statements)
    BY <1>1 DEF Reset
  <2>2. CASE ~(Wiped(statements).stamp /\ Wiped(statements).full)
    BY <1>3, <2>1, <2>2 DEF Sound
  <2>3. CASE Wiped(statements).stamp /\ Wiped(statements).full
    <3>1. statements = 1 /\ cache.stamp /\ cache.full
      <4>1. /\ Wiped(statements).stamp <=> (cache.stamp /\ statements < 4)
            /\ Wiped(statements).full <=> (cache.full /\ statements < 2)
        BY DEF Wiped
      <4>2. statements \in Int /\ statements >= 1
        OBVIOUS
      <4> QED BY <2>3, <4>1, <4>2
    <3>2. cache'.marked = cache.marked /\ cache'.unknown = cache.unknown
      BY <2>1, <3>1 DEF Wiped
    <3>3. ~Intact'
      BY <1>1, <3>1 DEF Intact, IInv
    <3> QED BY <1>1, <1>3, <2>1, <3>1, <3>2, <3>3 DEF IInv, Sound, Exact
  <2> QED BY <2>2, <2>3
<1>6. /\ resets' \in 0..MaxResets /\ forgets' \in 0..MaxForgets /\ kills' \in 0..MaxKills
      /\ target' \in Studied \cup {NoVerse} /\ reading' = NoVerse
  BY <1>1, ReadabilityAssumption DEF IInv, Reset
<1> QED BY <1>1, <1>4, <1>5, <1>6 DEF IInv

\* The invariant is inductive.
LEMMA StepIInv == IInv /\ [Next]_vars => IInv'
<1> SUFFICES ASSUME IInv, [Next]_vars PROVE IInv'
  OBVIOUS
<1>1. CASE NextStudyItem
  <2>1. PICK item \in NextItems(srs, cache, target) : Show(item)
    BY <1>1 DEF NextStudyItem
  <2>2. Sound(item.cache, item.srs, torn, Intact)
    BY ItemSound DEF IInv
  <2>3. /\ item.srs \in Cards
        /\ item.target \in Studied \cup {NoVerse} /\ item.reading \in Verses \cup {NoVerse}
    BY ItemParts DEF IInv
  <2> QED BY <1>1, <2>1, <2>2, <2>3 DEF NextStudyItem, Show, rest, IInv, Intact
<1>2. CASE TutorProgress
  <2>1. Sound(Ensured(cache, srs), srs, torn, Intact)
    BY EnsuredSound DEF IInv
  <2> QED BY <1>2, <2>1 DEF TutorProgress, rest, IInv, Intact
<1>3. CASE \E s \in Surfaces, next \in {"learning", "known"} : SubmitReview(s, next)
  BY <1>3, ReviewInv
<1>4. CASE \E s \in Surfaces : KilledInReview(s) \/ KilledInRecord(s)
  BY <1>4, KilledInv
<1>5. ASSUME NEW ws \in SUBSET Hebrew, SeedKnownVocab(ws) PROVE IInv'
  <2>1. srs' \in Cards /\ \A s \in Surfaces : srs[s] = "known" => srs'[s] = "known"
    BY <1>5 DEF SeedKnownVocab, IInv, Cards, Card
  <2>2. Done(srs) \subseteq Done(srs')
    BY <2>1, DoneGrows
  <2>3. Sound(cache, srs', torn, Intact)
    BY <2>2, SoundGrows DEF IInv
  <2>4. seeds' \in 0..MaxSeeds
    BY <1>5, ReadabilityAssumption DEF SeedKnownVocab, IInv
  <2> QED BY <1>5, <2>1, <2>3, <2>4 DEF SeedKnownVocab, IInv, Intact
<1>6. ASSUME NEW cards \in [Surfaces -> Card], NEW newReset \in BOOLEAN, Merge(cards, newReset)
      PROVE  IInv'
  <2>1. merges' \in 0..MaxMerges /\ ~Intact'
    BY <1>6, ReadabilityAssumption DEF Merge, IInv, Intact
  <2>2. cache \in Caches /\ resetKnown' \in BOOLEAN
    BY <1>6 DEF IInv, Sound, Merge
  <2>3. CASE newReset
    <3>1. cache' \in Caches /\ ~cache'.stamp
      BY <1>6, <2>2, <2>3 DEF Merge, Caches
    <3> QED BY <1>6, <2>1, <2>2, <3>1 DEF Merge, IInv, Sound, Cards
  <2>4. CASE ~newReset
    BY <1>6, <2>1, <2>2, <2>4 DEF Merge, IInv, Sound, Cards
  <2> QED BY <2>3, <2>4
<1>7. CASE ResetTutor \/ KilledInReset
  BY <1>7, ResetInv
<1>8. CASE UNCHANGED vars
  BY <1>8 DEF vars, IInv, Intact
<1> QED BY <1>1, <1>2, <1>3, <1>4, <1>5, <1>6, <1>7, <1>8 DEF Next

\* The invariant holds always.
LEMMA Invariant == Spec => []IInv
BY InitIInv, StepIInv, PTL DEF Spec

\* Type correctness.
THEOREM TypeCorrect == Spec => []TypeOK
<1>1. IInv => TypeOK
  <2> SUFFICES ASSUME IInv PROVE TypeOK
    OBVIOUS
  <2>1. cache \in Caches
    BY DEF IInv, Sound
  <2>2. /\ DOMAIN cache = {"stamp", "full", "marked", "unknown"}
        /\ cache.stamp \in BOOLEAN /\ cache.full \in BOOLEAN
        /\ cache.marked \subseteq Hebrew
        /\ cache.unknown \in Counts \cup {NoRows}
    BY <2>1 DEF Caches
  <2> QED BY <2>2 DEF IInv, TypeOK, Cards
<1> QED BY <1>1, Invariant, PTL

\* The counts of the cache follow its marks, however stale both are; in a verse
\* with Aramaic words up to those.
THEOREM CountsCorrect == Spec => []CountsFollowMarks
<1>1. IInv => CountsFollowMarks
  <2> SUFFICES ASSUME IInv, cache.stamp, cache.full, ~torn
               PROVE  /\ \A v \in Studied : cache.unknown[v] =
                             Cardinality({Vkey[s] : s \in Words[v] \ cache.marked})
                      /\ \A v \in Verses \ Studied : cache.unknown[v] \in
                             {Unlearnt(cache.marked, v), Unknown(cache.marked, v)}
    BY DEF CountsFollowMarks
  <2>1. Exact(cache)
    BY DEF IInv, Sound
  <2> QED BY <2>1, StudiedCounts DEF Exact
<1> QED BY <1>1, Invariant, PTL

\* As long as no card is taken away, comparing two counts tells a stale cache
\* from an exact one: marks are only ever missing, so equally many are the same.
THEOREM CacheExact == Spec => []ExactUntilForgotten
<1>1. IInv => ExactUntilForgotten
  <2> SUFFICES ASSUME IInv, Intact PROVE Ensured(cache, srs).marked = Done(srs)
    BY DEF ExactUntilForgotten, Intact
  <2> QED BY EnsuredSound DEF IInv
<1> QED BY <1>1, Invariant, PTL
-----------------------------------------------------------------------------
(* Outcomes of a call *)

Fields == {"srs", "letters", "cache", "target", "unlocked", "explained", "reading", "asked", "call"}
IsOutcome(x) == Fields \subseteq DOMAIN x

\* An outcome that shows a card and changes nothing that Readability sees.
Keeps(x, o) ==
  IsOutcome(o) /\ o.srs = x.srs /\ o.cache = x.cache /\ o.target = x.target /\ o.reading = x.reading

\* A word without a card, not marked, is shown.
ShowsWord(x, w, o) ==
  /\ IsOutcome(o) /\ o.cache = x.cache /\ o.target = x.target /\ o.reading = x.reading
  /\ \E s \in Words[w] \ x.cache.marked :
       x.srs[s] = "none" /\ o.srs = IF s \in Names THEN [x.srs EXCEPT ![s] = "known"] ELSE x.srs

\* Showing letters keeps the rest.
LEMMA LettersKeep ==
  ASSUME NEW x, IsOutcome(x), NEW gs, NEW o \in Letter(x, gs) \cup NewLetter(x, gs)
  PROVE  Keeps(x, o)
<1>1. PICK a : o = [x EXCEPT !.asked = a]
  BY DEF Letter, NewLetter
<1> QED BY <1>1 DEF Keeps, IsOutcome, Fields

\* So does showing a word that was seen.
LEMMA WordsKeep ==
  ASSUME NEW x, IsOutcome(x), NEW ss, NEW o \in Word(x, ss)
  PROVE  Keeps(x, o)
BY DEF Word, Keeps, IsOutcome, Fields

\* So does a card pulled forward.
LEMMA DrillsKeep ==
  ASSUME NEW x, IsOutcome(x), NEW o \in Drills(x)
  PROVE  Keeps(x, o)
BY LettersKeep, WordsKeep DEF Drills

\* An introduction shows letters or a rule, or a new word of the verse.
LEMMA IntroductionsShow ==
  ASSUME NEW x, IsOutcome(x), x.srs \in Cards, NEW v \in Studied, NEW prefer,
         NEW o \in Introductions(x, v, prefer)
  PROVE  Keeps(x, o) \/ ShowsWord(x, v, o)
<1> DEFINE ws == UnfinishedWords(x, v, ~LettersFirst(x) /\ Completable(x, v))
<1>1. CASE \E gs : o \in NewLetter(x, gs)
  BY <1>1, LettersKeep
<1>2. CASE \E s \in ws \ Seen(x.srs) : o \in NewWord(x, s)
  <2>1. PICK s \in ws \ Seen(x.srs) : o \in NewWord(x, s)
    BY <1>2
  <2>2. s \in Words[v] \ x.cache.marked /\ s \in Surfaces
    BY <2>1, ReadabilityAssumption DEF UnfinishedWords, Studied
  <2>3. x.srs[s] = "none"
    BY <2>1, <2>2 DEF Seen, Cards
  <2>4. CASE \E r : o = [x EXCEPT !.explained = @ \cup {r}]
    BY <2>4 DEF Keeps, IsOutcome, Fields
  <2>5. CASE o = [x EXCEPT !.asked = {s}, !.srs[s] = IF s \in Names THEN "known" ELSE @]
    <3>1. /\ IsOutcome(o) /\ o.cache = x.cache /\ o.target = x.target /\ o.reading = x.reading
          /\ o.srs = [x.srs EXCEPT ![s] = IF s \in Names THEN "known" ELSE x.srs[s]]
      BY <2>5 DEF IsOutcome, Fields
    <3>2. s \notin Names => o.srs = x.srs
      BY <3>1, <2>2 DEF Cards
    <3> QED BY <3>1, <3>2, <2>2, <2>3 DEF ShowsWord
  <2> QED BY <2>1, <2>4, <2>5 DEF NewWord
<1> QED BY <1>1, <1>2 DEF Introductions

-----------------------------------------------------------------------------
(* A call, against the items that Readability allows *)

ItemOf(o) == Item(o.srs, o.cache, o.target, o.reading)

\* A pin that is allowed: the cache is brought up to date, and the verse is the
\* pinned one or one with a word that is not marked.
PinnedFor(x, y, v) ==
  /\ IsOutcome(y) /\ y.srs = x.srs /\ y.cache = Ensured(x.cache, x.srs)
  /\ y.reading = NoVerse /\ y.target = v
  /\ v \in Pins(y.cache, x.target)

\* What is shown for a pin is a lesson of Readability.
LEMMA ShownIsLesson ==
  ASSUME NEW x, NEW y, NEW v, NEW o, PinnedFor(x, y, v),
         \/ Keeps(y, o)
         \/ v \in Unread(y.cache) /\ \E w \in Studied : ShowsWord(y, w, o)
  PROVE  ItemOf(o) \in Lessons(x.srs, x.cache, x.target)
<1> DEFINE e == Ensured(x.cache, x.srs)
<1>1. CASE Keeps(y, o)
  <2>1. ItemOf(o) = Item(x.srs, e, v, NoVerse)
    BY <1>1 DEF ItemOf, Keeps, PinnedFor
  <2> QED BY <2>1 DEF Lessons, PinnedFor
<1>2. ASSUME v \in Unread(y.cache), NEW w \in Studied, ShowsWord(y, w, o)
      PROVE  ItemOf(o) \in Lessons(x.srs, x.cache, x.target)
  <2>1. PICK s \in Words[w] \ y.cache.marked :
          /\ y.srs[s] = "none"
          /\ o.srs = IF s \in Names THEN [y.srs EXCEPT ![s] = "known"] ELSE y.srs
    BY <1>2 DEF ShowsWord
  <2>2. s \in Fresh(x.srs, e)
    BY <2>1 DEF Fresh, PinnedFor
  <2>3. v \in Pins(e, x.target) \cap Unread(e)
    BY <1>2 DEF PinnedFor
  <2>4. ItemOf(o) = Item(IF s \in Names THEN [x.srs EXCEPT ![s] = "known"] ELSE x.srs, e, v, NoVerse)
    BY <1>2, <2>1 DEF ItemOf, ShowsWord, PinnedFor
  <2> QED BY <2>2, <2>3, <2>4 DEF Lessons
<1> QED BY <1>1, <1>2

\* What working towards a verse can come to: starting over only if it introduces
\* nothing, and has nothing more to introduce or no card is in learning.
LEMMA TowardsParts ==
  ASSUME NEW y, NEW v, y.target = v, NEW lapse, NEW prefer, NEW o \in Towards(y, lapse, prefer)
  PROVE  \/ o \in Introductions(y, v, prefer)
         \/ Words[v] \subseteq y.cache.marked /\ o = [y EXCEPT !.reading = v, !.target = NoVerse]
         \/ /\ ~(Words[v] \subseteq y.cache.marked)
            /\ \/ /\ o \in StartOver(y, lapse) /\ Introductions(y, v, prefer) = {}
                  /\ UnfinishedWords(y, v, TRUE) = {} \/ Drills(y) = {}
               \/ o \in Drills(y)
               \/ \E w \in OtherTargets(y, v) : o \in Introductions(y, w, prefer)
<1> DEFINE new == Introductions(y, v, prefer)
           others == {Introductions(y, w, prefer) : w \in IF lapse THEN OtherTargets(y, v) ELSE {}}
           drills == IF Drills(y) # {} THEN Drills(y) ELSE StartOver(y, lapse)
           some   == (UNION others) \cup IF others # {} /\ {} \notin others THEN {} ELSE drills
<1>1. o \in IF new # {} THEN new
            ELSE IF Words[v] \subseteq y.cache.marked
                 THEN {[y EXCEPT !.reading = v, !.target = NoVerse]}
            ELSE IF UnfinishedWords(y, v, TRUE) = {} THEN StartOver(y, lapse)
            ELSE some
  BY DEF Towards
<1>2. o \in UNION others => \E w \in OtherTargets(y, v) : o \in Introductions(y, w, prefer)
  OBVIOUS
<1>3. o \in drills => (Drills(y) = {} /\ o \in StartOver(y, lapse)) \/ o \in Drills(y)
  OBVIOUS
<1> HIDE DEF others, drills
<1>4. o \in some => o \in UNION others \/ o \in drills
  OBVIOUS
<1> HIDE DEF some
<1> QED BY <1>1, <1>2, <1>3, <1>4

\* Working towards the pinned verse is a lesson.
LEMMA TowardsIsLesson ==
  ASSUME NEW x, x.srs \in Cards, NEW y, NEW v \in Studied, PinnedFor(x, y, v),
         x.target \in {v, NoVerse}, x.target = NoVerse => v \in Unread(y.cache),
         NEW lapse, NEW prefer, NEW o \in Towards(y, lapse, prefer)
  PROVE  ItemOf(o) \in Lessons(x.srs, x.cache, x.target)
<1> DEFINE e == Ensured(x.cache, x.srs)
<1>1. /\ IsOutcome(y) /\ y.srs \in Cards /\ y.target = v
      /\ y.cache = e /\ y.srs = x.srs /\ y.reading = NoVerse
  BY DEF PinnedFor
<1>2. CASE o \in Introductions(y, v, prefer)
  <2>1. Keeps(y, o) \/ ShowsWord(y, v, o)
    BY <1>1, <1>2, IntroductionsShow
  <2>2. ShowsWord(y, v, o) => v \in Unread(y.cache)
    BY DEF ShowsWord, Unread
  <2> QED BY <2>1, <2>2, ShownIsLesson
<1>3. CASE Words[v] \subseteq y.cache.marked /\ o = [y EXCEPT !.reading = v, !.target = NoVerse]
  <2>1. ItemOf(o) = Item(x.srs, e, NoVerse, v)
    BY <1>1, <1>3 DEF ItemOf, IsOutcome, Fields
  <2>2. v \in Pins(e, x.target) \ (Unread(e) \cup {NoVerse})
    BY <1>1, <1>3, ReadabilityAssumption DEF PinnedFor, Unread
  <2> QED BY <2>1, <2>2 DEF Lessons
<1>4. ASSUME v \in Unread(y.cache), o \in StartOver(y, lapse)
      PROVE  ItemOf(o) \in Lessons(x.srs, x.cache, x.target)
  <2>1. ItemOf(o) = Item(x.srs, e, NoVerse, NoVerse)
    BY <1>1, <1>4 DEF StartOver, ItemOf, IsOutcome, Fields
  <2>2. NoVerse \in Pins(e, x.target)
    BY <1>1, <1>4 DEF Pins
  <2> QED BY <2>1, <2>2 DEF Lessons
<1>5. ASSUME v \in Unread(y.cache), NEW w \in Studied, o \in Introductions(y, w, prefer)
      PROVE  ItemOf(o) \in Lessons(x.srs, x.cache, x.target)
  BY <1>1, <1>5, IntroductionsShow, ShownIsLesson
<1>6. CASE o \in Drills(y)
  BY <1>1, <1>6, DrillsKeep, ShownIsLesson
<1>7. ~(Words[v] \subseteq y.cache.marked) => v \in Unread(y.cache)
  BY DEF Unread
<1>8. \A w \in OtherTargets(y, v) : w \in Studied
  BY DEF OtherTargets
<1> QED BY <1>1, <1>2, <1>3, <1>4, <1>5, <1>6, <1>7, <1>8, TowardsParts

\* What a call with nothing due can come to.
PinsFrom(x, F) == IF x.target # NoVerse THEN {x.target} ELSE Targets(Choosing(x, F))

\* With nothing due, a call first asks for letters, or works towards a pinned verse.
LEMMA NewItemsParts ==
  ASSUME NEW x, NEW lapse, NEW o \in NewItems(x, lapse)
  PROVE  \E F \in Frontiers(x), prefer \in BOOLEAN :
           \/ PinsFrom(x, F) = {} /\ (o = Choosing(x, F) \/ o \in Drills(Choosing(x, F)))
           \/ \E v \in PinsFrom(x, F) :
                o \in Towards([Choosing(x, F) EXCEPT !.target = v], lapse, prefer)
<1> DEFINE some(F, prefer) ==
      IF PinsFrom(x, F) = {}
      THEN IF Drills(Choosing(x, F)) = {} THEN {Choosing(x, F)} ELSE Drills(Choosing(x, F))
      ELSE UNION {Towards([Choosing(x, F) EXCEPT !.target = v], lapse, prefer) : v \in PinsFrom(x, F)}
<1>1. NewItems(x, lapse) = UNION {some(F, prefer) : F \in Frontiers(x), prefer \in BOOLEAN}
  BY DEF NewItems, PinsFrom
<1>2. PICK F \in Frontiers(x), prefer \in BOOLEAN : o \in some(F, prefer)
  <2> HIDE DEF some
  <2> QED BY <1>1
<1>3. CASE PinsFrom(x, F) = {}
  <2>1. o = Choosing(x, F) \/ o \in Drills(Choosing(x, F))
    BY <1>2, <1>3
  <2> QED BY <1>3, <2>1
<1>4. CASE PinsFrom(x, F) # {}
  <2>1. \E v \in PinsFrom(x, F) : o \in Towards([Choosing(x, F) EXCEPT !.target = v], lapse, prefer)
    BY <1>2, <1>4
  <2> QED BY <2>1
<1> QED BY <1>3, <1>4

\* With nothing due, a call gives a lesson.
LEMMA NewItemsAreLessons ==
  ASSUME NEW x, IsOutcome(x), x.srs \in Cards, x.target \in Studied \cup {NoVerse},
         x.reading = NoVerse, NEW lapse, NEW o \in NewItems(x, lapse)
  PROVE  ItemOf(o) \in Lessons(x.srs, x.cache, x.target)
<1> DEFINE y(F) == Choosing(x, F)
           pins(F) == IF x.target # NoVerse THEN {x.target} ELSE Targets(y(F))
<1>1. ASSUME NEW F
      PROVE  /\ IsOutcome(y(F)) /\ y(F).srs = x.srs /\ y(F).cache = Ensured(x.cache, x.srs)
             /\ y(F).target = x.target /\ y(F).reading = NoVerse
  BY DEF Choosing, IsOutcome, Fields
<1>2. ASSUME NEW F, pins(F) = {}
      PROVE  PinnedFor(x, y(F), NoVerse)
  <2>1. x.target = NoVerse
    BY <1>2
  <2> QED BY <1>1, <2>1 DEF PinnedFor, Pins
<1>3. ASSUME NEW F, pins(F) = {}, o = y(F) \/ o \in Drills(y(F))
      PROVE  ItemOf(o) \in Lessons(x.srs, x.cache, x.target)
  <2>1. Keeps(y(F), o)
    BY <1>1, <1>3, DrillsKeep DEF Keeps
  <2> QED BY <1>2, <1>3, <2>1, ShownIsLesson
<1>4. ASSUME NEW F, NEW v \in pins(F), NEW prefer,
             o \in Towards([y(F) EXCEPT !.target = v], lapse, prefer)
      PROVE  ItemOf(o) \in Lessons(x.srs, x.cache, x.target)
  <2> DEFINE z == [y(F) EXCEPT !.target = v]
  <2>1. /\ IsOutcome(z) /\ z.srs = x.srs /\ z.cache = Ensured(x.cache, x.srs)
        /\ z.target = v /\ z.reading = NoVerse
    BY <1>1 DEF IsOutcome, Fields
  <2>2. /\ v \in Studied /\ x.target \in {v, NoVerse}
        /\ x.target = NoVerse => v \in Unread(z.cache)
    BY <1>1, <1>4, <2>1 DEF Targets, Carries, UnfinishedWords, Unread
  <2>3. PinnedFor(x, z, v)
    BY <2>1, <2>2 DEF PinnedFor, Pins
  <2> QED BY <1>4, <2>2, <2>3, TowardsIsLesson
<1>5. \E F, prefer :
        \/ pins(F) = {} /\ (o = y(F) \/ o \in Drills(y(F)))
        \/ \E v \in pins(F) : o \in Towards([y(F) EXCEPT !.target = v], lapse, prefer)
  BY NewItemsParts DEF PinsFrom
<1> QED BY <1>3, <1>4, <1>5

\* A due card, alone or in a verse to read, is a review.
LEMMA DueItemsAreReviews ==
  ASSUME NEW x, IsOutcome(x), x.reading = NoVerse, NEW o \in DueItems(x)
  PROVE  ItemOf(o) \in Reviews(x.srs, x.cache, x.target)
<1> DEFINE ensured == Ensured(x.cache, x.srs)
           d == [x EXCEPT !.call = "due"]
           e == [d EXCEPT !.cache = Ensured(@, x.srs)]
<1>1. /\ IsOutcome(d) /\ d.srs = x.srs /\ d.cache = x.cache
      /\ d.target = x.target /\ d.reading = NoVerse
  BY DEF IsOutcome, Fields
<1>2. /\ IsOutcome(e) /\ e.srs = x.srs /\ e.cache = ensured
      /\ e.target = x.target /\ e.reading = NoVerse
  BY <1>1 DEF IsOutcome, Fields
<1>3. CASE \E y \in {d, e} : Keeps(y, o)
  <2>1. ItemOf(o) \in {Item(x.srs, x.cache, x.target, NoVerse), Item(x.srs, ensured, x.target, NoVerse)}
    BY <1>1, <1>2, <1>3 DEF Keeps, ItemOf
  <2> QED BY <2>1 DEF Reviews
<1>4. ASSUME NEW v \in Verses, e.cache.unknown[v] = 0, Words[v] \cap Seen(x.srs) # {},
             o = [e EXCEPT !.reading = v]
      PROVE  ItemOf(o) \in Reviews(x.srs, x.cache, x.target)
  <2>1. ItemOf(o) = Item(x.srs, ensured, x.target, v)
    BY <1>2, <1>4 DEF ItemOf, IsOutcome, Fields
  <2>2. \E s \in Words[v] : x.srs[s] # "none"
    BY <1>4 DEF Seen
  <2> QED BY <1>2, <1>4, <2>1, <2>2 DEF Reviews
<1>5. CASE o \in Letter(d, Seen(x.letters))
  BY <1>1, <1>3, <1>5, LettersKeep
<1>6. CASE o \in Word(d, Seen(x.srs)) \cup Word(e, Seen(x.srs))
  BY <1>1, <1>2, <1>3, <1>6, WordsKeep
<1>7. o \in Letter(d, Seen(x.letters)) \cup Word(d, Seen(x.srs)) \cup Word(e, Seen(x.srs))
        \cup {[e EXCEPT !.reading = v] :
                v \in {w \in Verses : e.cache.unknown[w] = 0 /\ Words[w] \cap Seen(x.srs) # {}}}
  BY DEF DueItems
<1> HIDE DEF d, e
<1> QED BY <1>4, <1>5, <1>6, <1>7

\* A call shows one of the items that Readability allows.
LEMMA CallShowsItem ==
  ASSUME NEW x, IsOutcome(x), x.srs \in Cards, x.target \in Studied \cup {NoVerse},
         x.reading = NoVerse, NEW due, NEW lapse, Call(x, due, lapse)
  PROVE  \E item \in NextItems(x.srs, x.cache, x.target) : Show(item)
<1>1. PICK o \in IF due THEN DueItems(x) ELSE NewItems(x, lapse) :
        srs' = o.srs /\ cache' = o.cache /\ target' = o.target /\ reading' = o.reading
  BY DEF Call
<1>2. ItemOf(o) \in NextItems(x.srs, x.cache, x.target)
  BY DueItemsAreReviews, NewItemsAreLessons DEF NextItems
<1>3. Show(ItemOf(o))
  BY <1>1 DEF Show, ItemOf, Item
<1> QED BY <1>2, <1>3

-----------------------------------------------------------------------------
(* The refinement *)

\* What a call starts from.
LEMMA HereIsOutcome ==
  /\ IsOutcome(Here)
  /\ Here.srs = srs /\ Here.letters = letters /\ Here.cache = cache
  /\ Here.target = target /\ Here.reading = NoVerse
BY DEF Here, IsOutcome, Fields

\* An answer to a word is a review of Readability.
LEMMA AnswerIsReview ==
  ASSUME IInv, NEW s \in Surfaces, NEW grade, NEW next \in {"learning", "known"}, NEW due,
         AnswerWord(s, grade, next, due)
  PROVE  SubmitReview(s, next)
<1> DEFINE x == [Here EXCEPT !.srs = Graded(s, next), !.cache = CacheAfter(s, next),
                             !.target = IF Graduates(s, next) THEN NoVerse ELSE @]
<1>1. /\ IsOutcome(x) /\ x.srs = Graded(s, next) /\ x.cache = CacheAfter(s, next)
      /\ x.target = IF Graduates(s, next) THEN NoVerse ELSE target
      /\ x.reading = NoVerse
  BY HereIsOutcome DEF IsOutcome, Fields
<1>2. x.srs \in Cards /\ x.target \in Studied \cup {NoVerse}
  BY <1>1, GradedParts DEF IInv
<1>3. Call(x, due, grade = "again")
  BY DEF AnswerWord
<1> HIDE DEF x
<1>4. \E item \in NextItems(x.srs, x.cache, x.target) : Show(item)
  BY <1>1, <1>2, <1>3, CallShowsItem
<1> QED BY <1>1, <1>4 DEF AnswerWord, SubmitReview

\* Every step of the tutor is one of Readability's, or changes nothing it sees.
LEMMA StepImplements == IInv /\ [StudyNext]_allVars => [Next]_vars
<1> SUFFICES ASSUME IInv, [StudyNext]_allVars PROVE [Next]_vars
  OBVIOUS
<1>1. ASSUME NEW x, IsOutcome(x), x.srs = srs, x.cache = cache, x.target = target,
             x.reading = NoVerse, NEW due, NEW lapse, Call(x, due, lapse), UNCHANGED rest
      PROVE  Next
  <2>1. \E item \in NextItems(srs, cache, target) : Show(item)
    BY <1>1, CallShowsItem DEF IInv
  <2> QED BY <1>1, <2>1 DEF Next, NextStudyItem
<1>2. ASSUME NEW due, Ask(due) PROVE Next
  BY <1>1, <1>2, HereIsOutcome DEF Ask
<1>3. CASE Retarget
  BY <1>1, <1>3, HereIsOutcome DEF Retarget
<1>4. ASSUME NEW s \in Surfaces, NEW grade, NEW next \in {"learning", "known"}, NEW due,
             AnswerWord(s, grade, next, due)
      PROVE  Next
  BY <1>4, AnswerIsReview DEF Next
<1>5. ASSUME NEW grade, NEW learnt, NEW due, AnswerGlyphs(grade, learnt, due) PROVE Next
  <2> DEFINE x == [Here EXCEPT !.letters = GradedGlyphs(grade, learnt)]
  <2>1. /\ IsOutcome(x) /\ x.srs = srs /\ x.cache = cache
        /\ x.target = target /\ x.reading = NoVerse
    BY HereIsOutcome DEF IsOutcome, Fields
  <2>2. Call(x, due, grade = "again") /\ UNCHANGED rest
    BY <1>5 DEF AnswerGlyphs
  <2> HIDE DEF x
  <2> QED BY <1>1, <2>1, <2>2
<1>6. CASE SeedVocab
  BY <1>6, StudyAssumption DEF SeedVocab, Next
<1>7. CASE SeedKnownAlphabet \/ UNCHANGED allVars
  BY <1>7 DEF SeedKnownAlphabet, allVars
<1> QED BY <1>2, <1>3, <1>4, <1>5, <1>6, <1>7 DEF StudyNext

\* The tutor's choice implements Readability.
THEOREM ChoiceCorrect == StudySpec => ChoosesAsReadabilityAllows
<1>1. StudyInit => Init
  BY DEF StudyInit
<1> QED BY <1>1, InitIInv, StepImplements, StepIInv, PTL DEF StudySpec, Spec, ChoosesAsReadabilityAllows

\* So the counts of the cache follow its marks while the tutor chooses, and the
\* comparison of counts tells a stale cache as long as nothing was forgotten.
THEOREM CacheSound == StudySpec => [](CountsFollowMarks /\ ExactUntilForgotten)
BY ChoiceCorrect, CountsCorrect, CacheExact, PTL DEF ChoosesAsReadabilityAllows

-----------------------------------------------------------------------------
(* Type correctness *)

IsAsked(a) == a \subseteq Glyphs \/ \E s \in Surfaces : a = {s}

\* What an outcome holds besides what Readability sees.
Typed(x) ==
  /\ IsOutcome(x)
  /\ x.srs \in Cards /\ x.letters \in [Glyphs -> Card]
  /\ x.unlocked \subseteq Rules /\ x.explained \subseteq Rules
  /\ IsAsked(x.asked)
  /\ x.call \in {"due", "new", "again", "lapsed"}

\* An outcome that differs from a typed one in the cache, the pin and the screen.
Retyped(x, o) ==
  /\ IsOutcome(o) /\ o.srs \in Cards /\ o.letters = x.letters
  /\ o.unlocked = x.unlocked /\ o.explained \subseteq Rules
  /\ IsAsked(o.asked) /\ o.call \in {x.call, "again", "lapsed"}

\* Letters on the screen are glyphs.
LEMMA LettersTyped ==
  ASSUME NEW x, Typed(x), NEW gs \in SUBSET Glyphs, NEW o \in Letter(x, gs) \cup NewLetter(x, gs)
  PROVE  Retyped(x, o) /\ o.call = x.call
<1>1. Hosts(x) \subseteq Glyphs
  BY DEF Hosts, Seen, Typed
<1>2. \A g \in Glyphs : UNION Syllables(x, g) \subseteq Glyphs /\ UNION FirstSyllables(x, g) \subseteq Glyphs
  BY <1>1 DEF Syllables, FirstSyllables
<1>3. PICK a \in SUBSET Glyphs : o = [x EXCEPT !.asked = a]
  BY <1>2 DEF Letter, NewLetter
<1> QED BY <1>3 DEF Typed, Retyped, IsOutcome, Fields, IsAsked

\* A word on the screen is one of the corpus.
LEMMA WordsTyped ==
  ASSUME NEW x, Typed(x), NEW ss \in SUBSET Surfaces, NEW o \in Word(x, ss)
  PROVE  Retyped(x, o) /\ o.call = x.call
BY DEF Word, Typed, Retyped, IsOutcome, Fields, IsAsked

\* Drills are of both kinds.
LEMMA DrillsTyped ==
  ASSUME NEW x, Typed(x), NEW o \in Drills(x)
  PROVE  Retyped(x, o) /\ o.call = x.call
<1>1. Learning(x.srs) \subseteq Surfaces /\ Learning(x.letters) \subseteq Glyphs
  BY DEF Learning, Typed, Cards
<1> QED BY <1>1, LettersTyped, WordsTyped DEF Drills

\* An introduction explains a rule or shows glyphs or a word.
LEMMA IntroductionsTyped ==
  ASSUME NEW x, Typed(x), NEW v \in Studied, NEW prefer, NEW o \in Introductions(x, v, prefer)
  PROVE  Retyped(x, o) /\ o.call = x.call
<1> DEFINE ws == UnfinishedWords(x, v, ~LettersFirst(x) /\ Completable(x, v))
<1>1. \A s \in ws \cup Hebrew : s \in Surfaces /\ GlyphsOf[s] \subseteq Glyphs
  BY ReadabilityAssumption, StudyAssumption, StudiedCounts DEF UnfinishedWords, Hebrew
<1>2. CASE \E gs \in SUBSET Glyphs : o \in NewLetter(x, gs)
  BY <1>2, LettersTyped
<1>3. CASE \E s \in ws : o \in NewWord(x, s)
  <2>1. PICK s \in ws : o \in NewWord(x, s)
    BY <1>3
  <2>2. CASE \E r \in Rules : o = [x EXCEPT !.explained = @ \cup {r}]
    BY <2>2 DEF Typed, Retyped, IsOutcome, Fields
  <2>3. CASE o = [x EXCEPT !.asked = {s}, !.srs[s] = IF s \in Names THEN "known" ELSE @]
    <3>1. /\ IsOutcome(o) /\ o.letters = x.letters /\ o.unlocked = x.unlocked
          /\ o.explained = x.explained /\ o.asked = {s} /\ o.call = x.call
          /\ o.srs = [x.srs EXCEPT ![s] = IF s \in Names THEN "known" ELSE x.srs[s]]
      BY <2>3 DEF Typed, IsOutcome, Fields
    <3>2. o.srs \in Cards
      BY <1>1, <2>1, <3>1 DEF Typed, Cards, Card
    <3> QED BY <1>1, <2>1, <3>1, <3>2 DEF Typed, Retyped, IsAsked
  <2> QED BY <2>1, <2>2, <2>3 DEF NewWord
<1> DEFINE GlyphsToSee(S) == (UNION {GlyphsOf[s] : s \in S}) \ Seen(x.letters)
<1>4. \A S \in SUBSET (ws \cup Hebrew) : GlyphsToSee(S) \subseteq Glyphs
  BY <1>1
<1>5. \/ o \in NewLetter(x, GlyphsToSee(ws))
      \/ o \in NewLetter(x, GlyphsToSee({s \in Hebrew : RulesOf[s] \subseteq x.unlocked}))
      \/ o \in NewLetter(x, {})
      \/ \E s \in ws : o \in NewWord(x, s)
  BY DEF Introductions
<1> HIDE DEF ws
<1> QED BY <1>2, <1>3, <1>4, <1>5

\* Working towards a verse stays within the types.
LEMMA TowardsTyped ==
  ASSUME NEW y, Typed(y), y.target \in Studied, NEW lapse, NEW prefer,
         NEW o \in Towards(y, lapse, prefer)
  PROVE  Retyped(y, o)
<1> DEFINE v == y.target
<1>1. CASE \E w \in Studied : o \in Introductions(y, w, prefer)
  BY <1>1, IntroductionsTyped
<1>2. CASE o = [y EXCEPT !.reading = v, !.target = NoVerse]
  BY <1>2 DEF Typed, Retyped, IsOutcome, Fields
<1>3. CASE o \in StartOver(y, lapse)
  BY <1>3 DEF StartOver, Typed, Retyped, IsOutcome, Fields
<1>4. CASE o \in Drills(y)
  BY <1>4, DrillsTyped
<1>5. \A w \in OtherTargets(y, v) : w \in Studied
  BY DEF OtherTargets
<1> HIDE DEF v
<1> QED BY <1>1, <1>2, <1>3, <1>4, <1>5, TowardsParts DEF v

\* So does a call with nothing due.
LEMMA NewItemsTyped ==
  ASSUME NEW x, Typed(x), x.target \in Studied \cup {NoVerse}, NEW lapse, NEW o \in NewItems(x, lapse)
  PROVE  Typed(o)
<1>1. PICK F \in Frontiers(x), prefer \in BOOLEAN :
        \/ o = Choosing(x, F) \/ o \in Drills(Choosing(x, F))
        \/ \E v \in Studied : o \in Towards([Choosing(x, F) EXCEPT !.target = v], lapse, prefer)
  <2>1. \A F \in Frontiers(x) : PinsFrom(x, F) \subseteq Studied
    BY DEF PinsFrom, Targets
  <2> QED BY <2>1, NewItemsParts
<1> DEFINE y == Choosing(x, F)
<1>2. F \subseteq Rules
  BY DEF Frontiers
<1>3. Typed(y)
  BY <1>2 DEF Choosing, Typed, IsOutcome, Fields
<1>4. \A v \in Studied : Typed([y EXCEPT !.target = v]) /\ [y EXCEPT !.target = v].target = v
  BY <1>3 DEF Typed, IsOutcome, Fields
<1> HIDE DEF y
<1>5. o = y \/ (\E z : Typed(z) /\ Retyped(z, o))
  BY <1>1, <1>3, <1>4, DrillsTyped, TowardsTyped DEF y
<1> QED BY <1>3, <1>5 DEF Typed, Retyped

\* And one that finds a card due.
LEMMA DueItemsTyped ==
  ASSUME NEW x, Typed(x), NEW o \in DueItems(x)
  PROVE  Typed(o)
<1> DEFINE d == [x EXCEPT !.call = "due"]
           e == [d EXCEPT !.cache = Ensured(@, x.srs)]
<1>1. Typed(d) /\ Typed(e)
  BY DEF Typed, IsOutcome, Fields
<1>2. Seen(x.srs) \subseteq Surfaces /\ Seen(x.letters) \subseteq Glyphs
  BY DEF Seen, Typed, Cards
<1>3. \A v \in Verses : Typed([e EXCEPT !.reading = v])
  BY <1>1 DEF Typed, IsOutcome, Fields
<1>4. o \in Letter(d, Seen(x.letters)) \cup Word(d, Seen(x.srs)) \cup Word(e, Seen(x.srs))
        \cup {[e EXCEPT !.reading = v] :
                v \in {w \in Verses : e.cache.unknown[w] = 0 /\ Words[w] \cap Seen(x.srs) # {}}}
  BY DEF DueItems
<1> HIDE DEF d, e
<1>5. Typed(o) \/ \E z : Typed(z) /\ Retyped(z, o)
  BY <1>1, <1>2, <1>3, <1>4, LettersTyped, WordsTyped
<1> QED BY <1>5 DEF Typed, Retyped

StudyTyped ==
  /\ letters \in [Glyphs -> Card]
  /\ unlocked \subseteq Rules /\ explained \subseteq Rules
  /\ IsAsked(asked) /\ call \in {"due", "new", "again", "lapsed"}

\* A call leaves the types right.
LEMMA CallTyped ==
  ASSUME NEW x, Typed(x), x.target \in Studied \cup {NoVerse}, NEW due, NEW lapse, Call(x, due, lapse)
  PROVE  StudyTyped'
<1>1. PICK o \in IF due THEN DueItems(x) ELSE NewItems(x, lapse) :
        /\ letters' = o.letters /\ unlocked' = o.unlocked /\ explained' = o.explained
        /\ asked' = o.asked /\ call' = o.call
  BY DEF Call
<1>2. Typed(o)
  BY DueItemsTyped, NewItemsTyped
<1> QED BY <1>1, <1>2 DEF Typed, StudyTyped, IsAsked

\* The types are kept by every step.
LEMMA StepTyped == IInv /\ StudyTyped /\ [StudyNext]_allVars => StudyTyped'
<1> SUFFICES ASSUME IInv, StudyTyped, [StudyNext]_allVars PROVE StudyTyped'
  OBVIOUS
<1>1. Typed(Here) /\ Here.target \in Studied \cup {NoVerse}
  BY DEF Here, Typed, IsOutcome, Fields, IInv, StudyTyped, IsAsked
<1>2. ASSUME NEW due, Ask(due) PROVE StudyTyped'
  BY <1>1, <1>2, CallTyped DEF Ask
<1>3. CASE Retarget
  BY <1>1, <1>3, CallTyped DEF Retarget
<1>4. ASSUME NEW s \in Surfaces, NEW grade, NEW next \in {"learning", "known"}, NEW due,
             AnswerWord(s, grade, next, due)
      PROVE  StudyTyped'
  <2> DEFINE x == [Here EXCEPT !.srs = Graded(s, next), !.cache = CacheAfter(s, next),
                               !.target = IF Graduates(s, next) THEN NoVerse ELSE @]
  <2>1. Typed(x) /\ x.target \in Studied \cup {NoVerse}
    BY <1>1, GradedParts DEF Typed, IsOutcome, Fields, IInv
  <2>2. Call(x, due, grade = "again")
    BY <1>4 DEF AnswerWord
  <2> HIDE DEF x
  <2> QED BY <2>1, <2>2, CallTyped
<1>5. ASSUME NEW grade, NEW learnt, NEW due, AnswerGlyphs(grade, learnt, due) PROVE StudyTyped'
  <2> DEFINE x == [Here EXCEPT !.letters = GradedGlyphs(grade, learnt)]
  <2>1. GradedGlyphs(grade, learnt) \in [Glyphs -> Card]
    BY DEF GradedGlyphs, StudyTyped, Card
  <2>2. Typed(x) /\ x.target \in Studied \cup {NoVerse}
    BY <1>1, <2>1 DEF Typed, IsOutcome, Fields
  <2>3. Call(x, due, grade = "again")
    BY <1>5 DEF AnswerGlyphs
  <2> HIDE DEF x
  <2> QED BY <2>2, <2>3, CallTyped
<1>6. CASE SeedVocab \/ UNCHANGED allVars
  BY <1>6 DEF SeedVocab, allVars, study, StudyTyped, IsAsked
<1>7. CASE SeedKnownAlphabet
  BY <1>7 DEF SeedKnownAlphabet, StudyTyped, IsAsked, Card
<1> QED BY <1>2, <1>3, <1>4, <1>5, <1>6, <1>7 DEF StudyNext

\* Type correctness of the tutor's choice.
THEOREM StudyTypeCorrect == StudySpec => []StudyTypeOK
<1>1. StudyInit => Init /\ StudyTyped
  BY DEF StudyInit, StudyTyped, IsAsked, Card
<1>2. StudyTyped /\ TypeOK => StudyTypeOK
  BY DEF StudyTyped, IsAsked, StudyTypeOK
<1>3. StudySpec => []TypeOK
  BY ChoiceCorrect, TypeCorrect, PTL DEF ChoosesAsReadabilityAllows
<1> QED BY <1>1, <1>2, <1>3, InitIInv, StepIInv, StepImplements, StepTyped, PTL DEF StudySpec
-----------------------------------------------------------------------------
(* Words met in order *)

\* The surfaces that share a vocabulary key with one of S.
TwinsOf(S) == UNION {Twins(s) : s \in S}

\* What a form is taken for does not hang on the points that its key drops.
TwinsAlike ==
  \A s \in Surfaces : \A t \in Twins(s) :
    /\ BareKey[t] = BareKey[s] /\ Root[t] = Root[s] /\ Tier[t] = Tier[s]
    /\ t \in AllNames <=> s \in AllNames

\* A surface may be met: a Hebrew one if its bare form and a Qal of its root have been, or are it.
Derived(s) ==
  Root[s] # NoRoot /\ s \notin AllNames /\ Tier[s] >= VerbTier /\ FamilyOf(s) \cap Qal # {}
Meetable(cards, s) ==
  \/ s \in Granted \cup Aramaic
  \/ /\ Bare(s) = s \/ Bare(s) \in Seen(cards)
     /\ Derived(s) => s \in Qal \/ FamilyOf(s) \cap Qal \cap Seen(cards) # {}

\* What is in the database: marks only for words met, in some spelling, and a
\* consonant seen if a vowel was.
Stored(x) ==
  /\ Sound(x.cache, x.srs, FALSE, FALSE)
  /\ x.cache.marked \subseteq TwinsOf(Seen(x.srs))
  /\ Seen(x.letters) \cap Vowels # {} => Seen(x.letters) \ Vowels # {}
  /\ TwinsAlike => \A s \in Seen(x.srs) : Meetable(x.srs, s)

\* What is on the screen: a vowel only with a consonant, a word only if it may
\* be met, and only a verse all of whose Hebrew words were.
AskedWell(cards, a) ==
  /\ a \cap Vowels # {} => a \cap (Glyphs \ Vowels) # {}
  /\ TwinsAlike => \A s \in Surfaces : a = {s} => Meetable(cards, s)
Screen(x) ==
  /\ AskedWell(x.srs, x.asked)
  /\ x.reading \in Verses => Words[x.reading] \cap Hebrew \subseteq TwinsOf(Seen(x.srs))
  /\ x.call \in {"again", "lapsed"} => x.target = NoVerse
Sane(x) == Stored(x) /\ Screen(x)

Now ==
  [srs |-> srs, letters |-> letters, cache |-> cache, target |-> target,
   unlocked |-> unlocked, explained |-> explained,
   reading |-> reading, asked |-> asked, call |-> call]

\* A nonempty set of numbers has a least one, which Min returns.
LEMMA MinIsIn ==
  ASSUME NEW S \in SUBSET Nat, S # {}
  PROVE  Min(S) \in S
<1>1. \E x \in S : \A y \in S : ~(<<y, x>> \in OpToRel(<, Nat))
  BY NatLessThanWellFounded, WFMin
<1>2. PICK x \in S : \A y \in S : ~(<<y, x>> \in OpToRel(<, Nat))
  BY <1>1
<1>3. ASSUME NEW y \in S PROVE x <= y
  <2>1. ~(<<y, x>> \in {ss \in Nat \X Nat : ss[1] < ss[2]})
    BY <1>2, Zenon DEF OpToRel
  <2>2. <<y, x>> \in Nat \X Nat /\ x \in Nat /\ y \in Nat
    OBVIOUS
  <2> HIDE <1>2
  <2>3. ~(y < x)
    BY <2>1, <2>2, SMT
  <2> QED BY <2>2, <2>3
<1> QED BY <1>3 DEF Min

\* The bare form of a Hebrew surface is one.
LEMMA BareIsSurface ==
  ASSUME NEW s \in Hebrew
  PROVE  Bare(s) \in Hebrew
<1> DEFINE S == {t \in Hebrew : Vkey[t] = BareKey[s]}
<1>1. S \in SUBSET Nat
  BY StudyAssumption DEF Hebrew
<1>2. PICK t \in Hebrew : BareKey[s] = Vkey[t]
  BY StudyAssumption
<1>3. S # {}
  BY <1>2
<1> HIDE DEF S
<1>4. Min(S) \in S
  BY <1>1, <1>3, MinIsIn
<1> QED BY <1>4 DEF Bare, S

\* Twins are twins of each other.
LEMMA TwinsBoth ==
  ASSUME NEW s \in Surfaces, NEW t \in Twins(s)
  PROVE  s \in Hebrew /\ t \in Hebrew /\ s \in Twins(t) /\ Twins(t) = Twins(s)
BY DEF Twins

\* A surface may be met when more has been seen.
LEMMA MeetableGrows ==
  ASSUME NEW old, NEW new, Seen(old) \subseteq Seen(new), NEW s, Meetable(old, s)
  PROVE  Meetable(new, s)
BY DEF Meetable

\* So may the twins of one that was met.
LEMMA TwinsMeetable ==
  ASSUME TwinsAlike, NEW cards, NEW s \in Surfaces, s \in Seen(cards), Meetable(cards, s),
         NEW t \in Twins(s)
  PROVE  Meetable(cards, t)
<1>1. CASE s \in Granted
  <2>1. PICK u \in UNION Frequent : s \in Twins(u)
    BY <1>1 DEF Granted
  <2>2. t \in Twins(u)
    BY <2>1 DEF Twins
  <2> QED BY <2>1, <2>2 DEF Meetable, Granted
<1>2. CASE s \notin Granted
  <2>1. s \in Hebrew /\ t \in Hebrew /\ BareKey[t] = BareKey[s] /\ Root[t] = Root[s] /\ Tier[t] = Tier[s]
        /\ (t \in AllNames <=> s \in AllNames)
    BY TwinsBoth DEF TwinsAlike, Hebrew
  <2>2. Bare(t) = Bare(s) /\ FamilyOf(t) = FamilyOf(s)
    BY <2>1 DEF Bare, FamilyOf
  <2>3. Bare(s) \in Seen(cards)
    BY <1>2, <2>1 DEF Meetable, Hebrew
  <2>4. s \in FamilyOf(s)
    BY <2>1 DEF FamilyOf
  <2>5. Derived(t) <=> Derived(s)
    BY <2>1, <2>2 DEF Derived
  <2> QED BY <1>2, <2>1, <2>2, <2>3, <2>4, <2>5 DEF Meetable, Hebrew
<1> QED BY <1>1, <1>2

\* The gates of a call let through only words that may be met.
LEMMA UnfinishedMeetable ==
  ASSUME NEW x, x.srs \in Cards, NEW v \in Studied, NEW withNames,
         NEW s \in UnfinishedWords(x, v, withNames)
  PROVE  s \in Hebrew /\ s \in Surfaces /\ Meetable(x.srs, s)
<1>1. s \in Hebrew /\ s \in Surfaces /\ FamilyReady(x.srs, s) /\ LexicalBaseReady(x.srs, s)
  BY StudiedCounts DEF UnfinishedWords, Hebrew
<1>2. Bare(s) = s \/ Bare(s) \in Seen(x.srs)
  BY <1>1, BareIsSurface DEF LexicalBaseReady, Seen, Cards, Hebrew
<1>3. ASSUME Derived(s) PROVE s \in Qal \/ FamilyOf(s) \cap Qal \cap Seen(x.srs) # {}
  <2>1. Root[s] # NoRoot /\ s \notin AllNames /\ ~(Tier[s] < VerbTier) /\ FamilyOf(s) \cap Qal # {}
    BY <1>1, <1>3, StudyAssumption DEF Derived
  <2>2. FamilyBase(s) \/ Root[s] \in KnownQalRoots(x.srs)
    BY <1>1, <2>1 DEF FamilyReady
  <2>3. FamilyBase(s) => s \in Qal
    BY <2>1 DEF FamilyBase
  <2>4. ASSUME Root[s] \in KnownQalRoots(x.srs)
        PROVE  FamilyOf(s) \cap Qal \cap Seen(x.srs) # {}
    <3>1. PICK t \in Known(x.srs) : t \in Qal /\ Root[t] = Root[s]
      BY <2>4 DEF KnownQalRoots
    <3>2. t \in Hebrew /\ t \in Seen(x.srs)
      BY <3>1, StudyAssumption DEF Known, Seen, Cards
    <3> QED BY <3>1, <3>2 DEF FamilyOf
  <2> QED BY <2>2, <2>3, <2>4
<1> QED BY <1>1, <1>2, <1>3 DEF Meetable

\* Done surfaces are spelled like one that was met.
LEMMA DoneMet ==
  ASSUME NEW cards \in Cards
  PROVE  Done(cards) \subseteq TwinsOf(Seen(cards))
BY DEF Done, TwinsOf, Seen, Cards

\* So are those marked once the cache has been brought up to date.
LEMMA EnsuredStored ==
  ASSUME NEW x, x.srs \in Cards, Stored(x), NEW c, c = Ensured(x.cache, x.srs)
  PROVE  /\ Sound(c, x.srs, FALSE, FALSE) /\ c.stamp /\ c.full
         /\ c.marked \subseteq TwinsOf(Seen(x.srs))
<1>1. Sound(c, x.srs, FALSE, FALSE) /\ c.stamp /\ c.full
  BY EnsuredSound DEF Stored
<1>2. c.marked \subseteq TwinsOf(Seen(x.srs))
  BY DoneMet DEF Ensured, Rebuilt, Stored
<1> QED BY <1>1, <1>2

\* More cards of words that may be met.
LEMMA StoredGrows ==
  ASSUME NEW x, Stored(x), NEW o, o.cache = x.cache, o.letters = x.letters,
         Seen(x.srs) \subseteq Seen(o.srs),
         TwinsAlike => \A s \in Seen(o.srs) : Meetable(x.srs, s)
  PROVE  Stored(o)
<1>1. Sound(o.cache, o.srs, FALSE, FALSE)
  BY DEF Stored, Sound
<1>2. o.cache.marked \subseteq TwinsOf(Seen(o.srs))
  BY DEF Stored, TwinsOf
<1>3. TwinsAlike => \A s \in Seen(o.srs) : Meetable(o.srs, s)
  BY MeetableGrows
<1> QED BY <1>1, <1>2, <1>3 DEF Stored

\* What is asked.
LEMMA AskedSane ==
  ASSUME NEW x, IsOutcome(x), Sane(x), NEW a, AskedWell(x.srs, a), NEW o, o = [x EXCEPT !.asked = a]
  PROVE  Sane(o)
<1>1. /\ o.srs = x.srs /\ o.letters = x.letters /\ o.cache = x.cache /\ o.asked = a
      /\ o.reading = x.reading /\ o.call = x.call /\ o.target = x.target
  BY DEF IsOutcome, Fields
<1> QED BY <1>1 DEF Sane, Stored, Screen

\* Letters that are asked: a vowel comes with a consonant.
LEMMA LettersSane ==
  ASSUME NEW x, Typed(x), Sane(x), NEW gs \in SUBSET Glyphs, NEW o \in Letter(x, gs) \cup NewLetter(x, gs)
  PROVE  Sane(o)
<1>1. Hosts(x) \subseteq Glyphs \ Vowels
  BY DEF Hosts, Seen, Typed
<1>2. PICK g \in gs : \E b \in FirstSyllables(x, g) : o = [x EXCEPT !.asked = b]
  BY DEF Letter, NewLetter, FirstSyllables
<1>3. PICK a \in FirstSyllables(x, g) : o = [x EXCEPT !.asked = a]
  BY <1>2
<1>4. a \subseteq Glyphs /\ a \cap (Glyphs \ Vowels) # {}
  BY <1>1, StudyAssumption DEF FirstSyllables, Syllables
<1>5. \A s \in Surfaces : a # {s}
  BY <1>4, StudyAssumption
<1> QED BY <1>3, <1>4, <1>5, AskedSane DEF AskedWell, Typed

\* Words that are asked.
LEMMA WordsSane ==
  ASSUME NEW x, Typed(x), Sane(x), NEW s \in Surfaces, TwinsAlike => Meetable(x.srs, s),
         NEW o, o = [x EXCEPT !.asked = {s}]
  PROVE  Sane(o)
<1>1. s \notin Vowels
  BY StudyAssumption
<1> QED BY <1>1, AskedSane DEF AskedWell, Typed

\* Words that have been seen may be asked again.
LEMMA SeenSane ==
  ASSUME NEW x, Typed(x), Sane(x), NEW ss \in SUBSET Seen(x.srs), NEW o \in Word(x, ss)
  PROVE  Sane(o)
<1>1. PICK s \in ss : o = [x EXCEPT !.asked = {s}]
  BY DEF Word
<1>2. s \in Surfaces
  BY DEF Seen, Typed, Cards
<1> QED BY <1>1, <1>2, WordsSane DEF Sane, Stored

\* Cards in learning too.
LEMMA DrillsSane ==
  ASSUME NEW x, Typed(x), Sane(x), NEW o \in Drills(x)
  PROVE  Sane(o)
<1>1. Learning(x.srs) \subseteq Seen(x.srs) /\ Learning(x.letters) \subseteq Glyphs
  BY DEF Learning, Seen, Typed
<1> QED BY <1>1, LettersSane, SeenSane DEF Drills

\* An introduction is of a word that may be met.
LEMMA IntroductionsSane ==
  ASSUME NEW x, Typed(x), Sane(x), NEW v \in Studied, NEW prefer, NEW o \in Introductions(x, v, prefer)
  PROVE  Sane(o)
<1> DEFINE ws == UnfinishedWords(x, v, ~LettersFirst(x) /\ Completable(x, v))
<1>1. \A s \in ws : s \in Surfaces /\ Meetable(x.srs, s)
  BY UnfinishedMeetable DEF Typed
<1>2. CASE \E gs \in SUBSET Glyphs : o \in NewLetter(x, gs)
  BY <1>2, LettersSane
<1>3. CASE \E s \in ws : o \in NewWord(x, s)
  <2>1. PICK s \in ws : o \in NewWord(x, s)
    BY <1>3
  <2>2. CASE \E r \in Rules : o = [x EXCEPT !.explained = @ \cup {r}]
    <3>1. /\ o.srs = x.srs /\ o.letters = x.letters /\ o.cache = x.cache /\ o.asked = x.asked
          /\ o.reading = x.reading /\ o.call = x.call /\ o.target = x.target
      BY <2>2 DEF Typed, IsOutcome, Fields
    <3> QED BY <3>1 DEF Sane, Stored, Screen
  <2>3. CASE o = [x EXCEPT !.asked = {s}, !.srs[s] = IF s \in Names THEN "known" ELSE @]
    <3>1. /\ o.letters = x.letters /\ o.cache = x.cache /\ o.asked = {s}
          /\ o.reading = x.reading /\ o.call = x.call /\ o.target = x.target
          /\ o.srs = [x.srs EXCEPT ![s] = IF s \in Names THEN "known" ELSE x.srs[s]]
      BY <2>3 DEF Typed, IsOutcome, Fields
    <3>2. Seen(x.srs) \subseteq Seen(o.srs) /\ Seen(o.srs) \subseteq Seen(x.srs) \cup {s}
      BY <1>1, <2>1, <3>1 DEF Typed, Cards, Seen
    <3>3. Stored(o)
      BY <1>1, <2>1, <3>1, <3>2, StoredGrows DEF Sane, Stored
    <3>4. AskedWell(o.srs, o.asked)
      <4>1. Meetable(o.srs, s) /\ s \notin Vowels
        BY <1>1, <2>1, <3>2, MeetableGrows, StudyAssumption
      <4> QED BY <3>1, <4>1 DEF AskedWell
    <3>5. TwinsOf(Seen(x.srs)) \subseteq TwinsOf(Seen(o.srs))
      BY <3>2 DEF TwinsOf
    <3> QED BY <3>1, <3>3, <3>4, <3>5 DEF Sane, Screen
  <2> QED BY <2>1, <2>2, <2>3 DEF NewWord
<1> DEFINE GlyphsToSee(S) == (UNION {GlyphsOf[s] : s \in S}) \ Seen(x.letters)
<1>4. \A S \in SUBSET (ws \cup Hebrew) : GlyphsToSee(S) \subseteq Glyphs
  BY <1>1, StudyAssumption DEF Hebrew
<1>5. \/ o \in NewLetter(x, GlyphsToSee(ws))
      \/ o \in NewLetter(x, GlyphsToSee({s \in Hebrew : RulesOf[s] \subseteq x.unlocked}))
      \/ o \in NewLetter(x, {})
      \/ \E s \in ws : o \in NewWord(x, s)
  BY DEF Introductions
<1> HIDE DEF ws
<1> QED BY <1>2, <1>3, <1>4, <1>5

\* Working towards a verse: a verse is shown when its words are marked.
LEMMA TowardsSane ==
  ASSUME NEW y, Typed(y), Sane(y), y.target \in Studied, NEW lapse, NEW prefer,
         NEW o \in Towards(y, lapse, prefer)
  PROVE  Sane(o)
<1> DEFINE v == y.target
<1>1. CASE \E w \in Studied : o \in Introductions(y, w, prefer)
  BY <1>1, IntroductionsSane
<1>2. CASE Words[v] \subseteq y.cache.marked /\ o = [y EXCEPT !.reading = v, !.target = NoVerse]
  <2>1. /\ o.srs = y.srs /\ o.letters = y.letters /\ o.cache = y.cache /\ o.asked = y.asked
        /\ o.reading = v /\ o.call = y.call /\ o.target = NoVerse
    BY <1>2 DEF Typed, IsOutcome, Fields
  <2> HIDE DEF v
  <2> QED BY <1>2, <2>1 DEF Sane, Stored, Screen
<1>3. CASE o \in StartOver(y, lapse)
  <2>1. /\ o.srs = y.srs /\ o.letters = y.letters /\ o.cache = y.cache /\ o.asked = y.asked
        /\ o.reading = y.reading /\ o.target = NoVerse
    BY <1>3 DEF StartOver, Typed, IsOutcome, Fields
  <2> QED BY <2>1 DEF Sane, Stored, Screen
<1>4. CASE o \in Drills(y)
  BY <1>4, DrillsSane
<1>5. \A w \in OtherTargets(y, v) : w \in Studied
  BY DEF OtherTargets
<1> HIDE DEF v
<1> QED BY <1>1, <1>2, <1>3, <1>4, <1>5, TowardsParts DEF v

\* The choice is made from a cache that is as sane.
LEMMA ChoosingSane ==
  ASSUME NEW x, Typed(x), Sane(x), NEW F \in SUBSET Rules
  PROVE  /\ Typed(Choosing(x, F)) /\ Sane(Choosing(x, F))
         /\ x.call = "new" => \A v \in Studied :
              /\ Typed([Choosing(x, F) EXCEPT !.target = v])
              /\ Sane([Choosing(x, F) EXCEPT !.target = v])
              /\ [Choosing(x, F) EXCEPT !.target = v].target = v
<1> DEFINE y == Choosing(x, F)
<1>1. /\ y.srs = x.srs /\ y.letters = x.letters /\ y.asked = x.asked
      /\ y.reading = x.reading /\ y.call = x.call /\ y.target = x.target
      /\ y.cache = Ensured(x.cache, x.srs)
  BY DEF Choosing, Typed, IsOutcome, Fields
<1>2. Typed(y)
  BY DEF Choosing, Typed, IsOutcome, Fields
<1> HIDE DEF y
<1>3. Stored(y)
  BY <1>1, EnsuredStored DEF Stored, Typed, Sane
<1>4. Sane(y)
  BY <1>1, <1>3 DEF Sane, Screen
<1>5. ASSUME x.call = "new", NEW v \in Studied, NEW z, z = [y EXCEPT !.target = v]
      PROVE  Typed(z) /\ Sane(z) /\ z.target = v
  <2>1. /\ z.srs = y.srs /\ z.letters = y.letters /\ z.asked = y.asked /\ z.cache = y.cache
        /\ z.reading = y.reading /\ z.call = "new" /\ z.target = v
    BY <1>1, <1>2, <1>5 DEF Typed, IsOutcome, Fields
  <2>2. Typed(z)
    BY <1>2, <1>5 DEF Typed, IsOutcome, Fields
  <2> QED BY <1>4, <2>1, <2>2 DEF Sane, Stored, Screen
<1> QED BY <1>2, <1>4, <1>5 DEF y

\* A call with nothing due.
LEMMA NewItemsSane ==
  ASSUME NEW x, Typed(x), Sane(x), x.call = "new", x.target \in Studied \cup {NoVerse},
         NEW lapse, NEW o \in NewItems(x, lapse)
  PROVE  Sane(o)
<1>1. PICK F \in Frontiers(x), prefer \in BOOLEAN :
        \/ o = Choosing(x, F) \/ o \in Drills(Choosing(x, F))
        \/ \E v \in Studied : o \in Towards([Choosing(x, F) EXCEPT !.target = v], lapse, prefer)
  <2>1. \A F \in Frontiers(x) : PinsFrom(x, F) \subseteq Studied
    BY DEF PinsFrom, Targets
  <2> QED BY <2>1, NewItemsParts
<1>2. F \in SUBSET Rules
  BY DEF Frontiers
<1>3. CASE o = Choosing(x, F) \/ o \in Drills(Choosing(x, F))
  BY <1>2, <1>3, ChoosingSane, DrillsSane
<1>4. ASSUME NEW v \in Studied, o \in Towards([Choosing(x, F) EXCEPT !.target = v], lapse, prefer)
      PROVE  Sane(o)
  <2> DEFINE z == [Choosing(x, F) EXCEPT !.target = v]
  <2>1. Typed(z) /\ Sane(z) /\ z.target = v
    BY <1>2, ChoosingSane
  <2>2. o \in Towards(z, lapse, prefer)
    BY <1>4
  <2> HIDE DEF z
  <2> QED BY <2>1, <2>2, TowardsSane
<1> QED BY <1>1, <1>3, <1>4

\* A call with a card due: a verse is shown that counts no unknown word.
LEMMA DueItemsSane ==
  ASSUME NEW x, Typed(x), Sane(x), NEW o \in DueItems(x)
  PROVE  Sane(o)
<1> DEFINE d == [x EXCEPT !.call = "due"]
           e == [d EXCEPT !.cache = Ensured(@, x.srs)]
<1>1. /\ d.srs = x.srs /\ d.letters = x.letters /\ d.asked = x.asked /\ d.cache = x.cache
      /\ d.reading = x.reading /\ d.call = "due" /\ d.target = x.target
  BY DEF Typed, IsOutcome, Fields
<1>2. /\ e.srs = x.srs /\ e.letters = x.letters /\ e.asked = x.asked
      /\ e.cache = Ensured(x.cache, x.srs)
      /\ e.reading = x.reading /\ e.call = "due" /\ e.target = x.target
  BY DEF Typed, IsOutcome, Fields
<1>3. Typed(d) /\ Typed(e)
  BY DEF Typed, IsOutcome, Fields
<1>4. o \in Letter(d, Seen(x.letters)) \cup Word(d, Seen(x.srs)) \cup Word(e, Seen(x.srs))
        \cup {[e EXCEPT !.reading = v] :
                v \in {w \in Verses : e.cache.unknown[w] = 0 /\ Words[w] \cap Seen(x.srs) # {}}}
  BY DEF DueItems
<1> HIDE DEF d, e
<1>5. Sane(d)
  BY <1>1 DEF Sane, Stored, Screen
<1>6. /\ Sound(e.cache, x.srs, FALSE, FALSE) /\ e.cache.stamp /\ e.cache.full
      /\ e.cache.marked \subseteq TwinsOf(Seen(x.srs))
  BY <1>2, EnsuredStored DEF Typed, Sane
<1>7. Sane(e)
  BY <1>2, <1>6 DEF Sane, Stored, Screen
<1>8. ASSUME NEW v \in Verses, e.cache.unknown[v] = 0, o = [e EXCEPT !.reading = v]
      PROVE  Sane(o)
  <2> DEFINE open == (Words[v] \cap Hebrew) \ e.cache.marked
  <2>1. Unlearnt(e.cache.marked, v) = 0
    <3>1. e.cache.unknown[v] \in {Unlearnt(e.cache.marked, v), Unknown(e.cache.marked, v)}
      BY <1>6 DEF Sound, Exact
    <3>2. Unlearnt(e.cache.marked, v) \in Nat
      BY UnknownType
    <3>3. Cardinality(Words[v] \cap Aramaic) \in Nat
      BY ReadabilityAssumption, FS_Subset, FS_CardinalityType
    <3> QED BY <1>8, <3>1, <3>2, <3>3 DEF Unknown
  <2>2. open = {}
    <3>1. Cardinality({Vkey[s] : s \in open}) = 0
      BY <2>1 DEF Unlearnt
    <3>2. open \subseteq Words[v]
      OBVIOUS
    <3> HIDE DEF open
    <3>3. {Vkey[s] : s \in open} = {}
      BY <3>1, <3>2, KeysFinite, FS_EmptySet
    <3> QED BY <3>3
  <2>3. Words[v] \cap Hebrew \subseteq TwinsOf(Seen(x.srs))
    BY <1>6, <2>2
  <2>4. /\ o.srs = e.srs /\ o.letters = e.letters /\ o.asked = e.asked /\ o.cache = e.cache
        /\ o.reading = v /\ o.call = e.call /\ o.target = e.target
    BY <1>3, <1>8 DEF Typed, IsOutcome, Fields
  <2> QED BY <1>2, <1>7, <2>3, <2>4 DEF Sane, Stored, Screen
<1>9. Seen(x.letters) \subseteq Glyphs
  BY DEF Seen, Typed
<1>10. CASE o \in Letter(d, Seen(x.letters))
  BY <1>3, <1>5, <1>9, <1>10, LettersSane
<1>11. CASE o \in Word(d, Seen(x.srs)) \cup Word(e, Seen(x.srs))
  BY <1>1, <1>2, <1>3, <1>5, <1>7, <1>11, SeenSane
<1> QED BY <1>4, <1>8, <1>10, <1>11

\* Any call.
LEMMA CallSane ==
  ASSUME NEW x, Typed(x), Sane(x), x.call = "new", x.target \in Studied \cup {NoVerse},
         NEW due, NEW lapse, Call(x, due, lapse)
  PROVE  Sane(Now)'
<1>1. PICK o \in IF due THEN DueItems(x) ELSE NewItems(x, lapse) :
        /\ srs' = o.srs /\ letters' = o.letters
        /\ cache' = o.cache /\ target' = o.target
        /\ reading' = o.reading /\ asked' = o.asked /\ call' = o.call
  BY DEF Call
<1>2. Sane(o)
  BY DueItemsSane, NewItemsSane
<1> QED BY <1>1, <1>2 DEF Sane, Stored, Screen, Now

StudyInv == IInv /\ StudyTyped /\ Sane(Now) /\ ~torn

\* What a call starts from is as sane as the state, its screen cleared.
LEMMA HereSane ==
  ASSUME StudyInv
  PROVE  /\ Typed(Here) /\ Sane(Here) /\ Here.call = "new" /\ Here.asked = {}
         /\ Here.target \in Studied \cup {NoVerse}
<1>1. Typed(Here) /\ Here.target \in Studied \cup {NoVerse}
  BY DEF Here, Typed, IsOutcome, Fields, IInv, StudyTyped, IsAsked, StudyInv
<1>2. Stored(Here)
  BY DEF StudyInv, Sane, Stored, Now, Here
<1>3. Screen(Here)
  BY ReadabilityAssumption DEF Screen, AskedWell, Here
<1> QED BY <1>1, <1>2, <1>3 DEF Sane, Here

\* An answer is to a word that may be met, and what it leaves is sane.
LEMMA AnswerSane ==
  ASSUME StudyInv, NEW s \in Surfaces, NEW grade, NEW next \in {"learning", "known"}, NEW due,
         AnswerWord(s, grade, next, due)
  PROVE  Sane(Now)'
<1> DEFINE x == [Here EXCEPT !.srs = Graded(s, next), !.cache = CacheAfter(s, next),
                             !.target = IF Graduates(s, next) THEN NoVerse ELSE @]
<1>1. /\ x.srs = Graded(s, next) /\ x.cache = CacheAfter(s, next) /\ x.letters = letters
      /\ x.reading = NoVerse /\ x.asked = {} /\ x.call = "new"
      /\ x.target \in Studied \cup {NoVerse}
  BY HereSane DEF Here
<1>2. srs \in Cards /\ Graded(s, next) \in Cards
  BY GradedParts DEF StudyInv, IInv
<1>3. Typed(x)
  BY <1>2, HereSane DEF Typed, IsOutcome, Fields
<1>4. Call(x, due, grade = "again")
  BY DEF AnswerWord
<1>5. asked = {s} \/ (reading \in Verses /\ s \in Words[reading])
  BY DEF AnswerWord
<1> HIDE DEF x
<1>6. TwinsAlike => Meetable(srs, s)
  <2>1. SUFFICES ASSUME TwinsAlike, s \in Hebrew => s \in TwinsOf(Seen(srs))
                 PROVE  Meetable(srs, s)
    BY <1>5 DEF StudyInv, Sane, Screen, AskedWell, Now
  <2> SUFFICES ASSUME s \in Hebrew PROVE Meetable(srs, s)
    BY DEF Meetable, Hebrew
  <2>2. PICK t \in Seen(srs) : s \in Twins(t)
    BY <2>1 DEF TwinsOf
  <2>3. t \in Surfaces /\ Meetable(srs, t)
    BY <1>2, <2>1 DEF StudyInv, Sane, Stored, Now, Seen, Cards
  <2> QED BY <2>1, <2>2, <2>3, TwinsMeetable
<1>7. Seen(x.srs) = Seen(srs) \cup {s}
  BY <1>1, <1>2 DEF Graded, Cards, Seen
<1>8. Sound(x.cache, x.srs, FALSE, FALSE) /\ x.cache.marked \subseteq TwinsOf(Seen(x.srs))
  <2> DEFINE e == Ensured(cache, srs)
  <2>1. Stored(Now) /\ Now.srs = srs /\ Now.cache = cache
    BY DEF StudyInv, Sane, Now
  <2>2. /\ Sound(e, srs, FALSE, FALSE) /\ e.stamp /\ e.full /\ e.marked \subseteq TwinsOf(Seen(srs))
    BY <1>2, <2>1, EnsuredStored
  <2>3. TwinsOf(Seen(srs)) \cup Twins(s) \subseteq TwinsOf(Seen(x.srs))
    BY <1>7 DEF TwinsOf
  <2>4. CASE Graduates(s, next)
    <3>1. x.cache = Recorded(e, s) /\ x.srs[s] = "known"
      BY <1>1, <1>2, <2>4 DEF CacheAfter, Graduates, Graded, Cards
    <3> HIDE DEF e
    <3>2. Sound(e, x.srs, FALSE, FALSE)
      BY <2>2 DEF Sound
    <3>3. Sound(x.cache, x.srs, FALSE, FALSE)
      BY <2>2, <3>1, <3>2, RecordedSound
    <3>4. x.cache.marked \subseteq e.marked \cup Twins(s)
      <4>1. e \in Caches
        BY <2>2 DEF Sound
      <4> QED BY <3>1, <4>1 DEF Recorded, Recalculated, Marked, Caches
    <3> QED BY <2>2, <2>3, <3>3, <3>4
  <2>5. CASE ~Graduates(s, next)
    <3>1. x.cache = cache
      BY <1>1, <2>5 DEF CacheAfter
    <3> QED BY <2>1, <2>3, <3>1 DEF Stored, Sound
  <2> QED BY <2>4, <2>5
<1>9. TwinsAlike => \A t \in Seen(x.srs) : Meetable(x.srs, t)
  <2>1. Seen(srs) \subseteq Seen(x.srs)
    BY <1>7
  <2>2. TwinsAlike => \A t \in Seen(x.srs) : Meetable(srs, t)
    BY <1>6, <1>7 DEF StudyInv, Sane, Stored, Now
  <2> QED BY <2>1, <2>2, MeetableGrows
<1>10. Stored(x)
  BY <1>1, <1>8, <1>9 DEF Stored, StudyInv, Sane, Now
<1>11. Screen(x)
  BY <1>1, ReadabilityAssumption DEF Screen, AskedWell
<1> QED BY <1>1, <1>3, <1>4, <1>10, <1>11, CallSane DEF Sane

\* Every step leaves a sane state.
LEMMA StepSane == StudyInv /\ [StudyNext]_allVars => Sane(Now)' /\ ~torn'
<1> SUFFICES ASSUME StudyInv, [StudyNext]_allVars PROVE Sane(Now)' /\ ~torn'
  OBVIOUS
<1>0. ASSUME UNCHANGED rest PROVE ~torn'
  BY <1>0 DEF rest, StudyInv
<1>1. ASSUME NEW due, Ask(due) PROVE Sane(Now)' /\ ~torn'
  BY <1>0, <1>1, HereSane, CallSane DEF Ask
<1>2. CASE Retarget
  BY <1>0, <1>2, HereSane, CallSane DEF Retarget
<1>3. ASSUME NEW s \in Surfaces, NEW grade, NEW next \in {"learning", "known"}, NEW due,
             AnswerWord(s, grade, next, due)
      PROVE  Sane(Now)' /\ ~torn'
  BY <1>3, AnswerSane DEF AnswerWord, StudyInv
<1>4. ASSUME NEW grade, NEW learnt, NEW due, AnswerGlyphs(grade, learnt, due)
      PROVE  Sane(Now)' /\ ~torn'
  <2> DEFINE x == [Here EXCEPT !.letters = GradedGlyphs(grade, learnt)]
  <2>1. GradedGlyphs(grade, learnt) \in [Glyphs -> Card]
    BY DEF GradedGlyphs, StudyInv, StudyTyped, Card
  <2>2. Typed(x) /\ x.target \in Studied \cup {NoVerse} /\ x.call = "new"
    BY <2>1, HereSane DEF Typed, IsOutcome, Fields
  <2>3. Call(x, due, grade = "again") /\ UNCHANGED rest /\ asked \subseteq Glyphs
    BY <1>4 DEF AnswerGlyphs
  <2>4. /\ x.srs = Here.srs /\ x.cache = Here.cache /\ x.reading = Here.reading
        /\ x.asked = Here.asked /\ x.target = Here.target
        /\ x.letters = GradedGlyphs(grade, learnt) /\ Here.letters = letters
    BY HereIsOutcome DEF IsOutcome, Fields
  <2> HIDE DEF x
  <2>5. Seen(x.letters) = Seen(letters) \cup asked
    <3>1. \A g \in Glyphs : GradedGlyphs(grade, learnt)[g] # "none" <=> letters[g] # "none" \/ g \in asked
      BY DEF GradedGlyphs
    <3>2. DOMAIN letters = Glyphs /\ DOMAIN GradedGlyphs(grade, learnt) = Glyphs
      BY DEF StudyInv, StudyTyped, GradedGlyphs
    <3> QED BY <2>3, <2>4, <3>1, <3>2 DEF Seen
  <2>6. Seen(x.letters) \cap Vowels # {} => Seen(x.letters) \ Vowels # {}
    BY <2>5 DEF StudyInv, Sane, Stored, Screen, AskedWell, Now
  <2>7. Sane(x)
    BY <2>2, <2>4, <2>6, HereSane DEF Sane, Stored, Screen
  <2> QED BY <1>0, <2>2, <2>3, <2>7, CallSane
<1>5. CASE SeedVocab
  <2>1. PICK ws \in Frequent : SeedKnownVocab(ws)
    BY <1>5 DEF SeedVocab
  <2>2. UNCHANGED <<cache, target, reading, torn, study>>
    BY <1>5, <2>1 DEF SeedVocab, SeedKnownVocab
  <2>3. srs \in Cards /\ srs' = [s \in Surfaces |-> IF s \in ws /\ srs[s] = "none" THEN "known" ELSE srs[s]]
    BY <2>1 DEF SeedKnownVocab, StudyInv, IInv
  <2>4. Seen(srs) \subseteq Seen(srs') /\ Seen(srs') \subseteq Seen(srs) \cup ws
    BY <2>3 DEF Seen, Cards
  <2>5. \A s \in ws : s \in Granted
    BY StudyAssumption DEF Granted, Twins
  <2>6. TwinsAlike => \A s \in Seen(srs') : Meetable(srs, s)
    BY <2>4, <2>5 DEF StudyInv, Sane, Stored, Now, Meetable
  <2>7. Stored(Now')
    <3>1. Now'.cache = Now.cache /\ Now'.letters = Now.letters /\ Now'.srs = srs' /\ Now.srs = srs
      BY <2>2 DEF Now, study
    <3>2. Stored(Now)
      BY DEF StudyInv, Sane
    <3> HIDE DEF Now
    <3> QED BY <2>4, <2>6, <3>1, <3>2, StoredGrows
  <2>8. TwinsOf(Seen(srs)) \subseteq TwinsOf(Seen(srs'))
    BY <2>4 DEF TwinsOf
  <2>9. AskedWell(srs', asked)
    BY <2>4, MeetableGrows DEF StudyInv, Sane, Screen, AskedWell, Now
  <2>10. Screen(Now')
    BY <2>2, <2>8, <2>9 DEF StudyInv, Sane, Screen, Now, study
  <2> QED BY <2>2, <2>7, <2>10 DEF StudyInv, Sane, Stored, Screen, Now
<1>6. CASE SeedKnownAlphabet
  <2>1. UNCHANGED <<srs, cache, target, reading, asked, call, torn>>
    BY <1>6 DEF SeedKnownAlphabet, vars
  <2>2. Seen(letters') = Glyphs
    BY <1>6 DEF SeedKnownAlphabet, Seen
  <2> QED BY <2>1, <2>2, StudyAssumption DEF StudyInv, Sane, Stored, Screen, Now
<1>7. CASE UNCHANGED allVars
  BY <1>7 DEF allVars, vars, study, StudyInv, Sane, Stored, Screen, Now
<1> QED BY <1>1, <1>2, <1>3, <1>4, <1>5, <1>6, <1>7 DEF StudyNext

\* The invariant of the tutor's choice.
LEMMA StudyInvariant == StudySpec => []StudyInv
<1>1. StudyInit => IInv /\ StudyTyped /\ Sane(Now) /\ ~torn
  <2> SUFFICES ASSUME StudyInit PROVE StudyTyped /\ Sane(Now) /\ ~torn
    BY InitIInv DEF StudyInit
  <2>1. Seen(srs) = {} /\ Seen(letters) = {}
    BY DEF StudyInit, Init, Seen
  <2>2. cache \in Caches /\ ~cache.stamp /\ cache.marked = {}
    BY DEF StudyInit, Init, Caches
  <2>3. Sane(Now)
    BY <2>1, <2>2, ReadabilityAssumption
       DEF StudyInit, Init, Sane, Stored, Screen, AskedWell, Sound, Now
  <2> QED BY <2>3 DEF StudyInit, Init, StudyTyped, IsAsked, Card
<1>2. StudyInv /\ [StudyNext]_allVars => StudyInv'
  BY StepImplements, StepIInv, StepTyped, StepSane DEF StudyInv
<1> QED BY <1>1, <1>2, PTL DEF StudySpec, StudyInv

\* A derived form is never the first met of a root that has a Qal, nor a
\* prefixed word before its bare form, unless forms that the vocabulary key
\* does not tell apart are taken for different words.
THEOREM MetCorrect == TwinsAlike => (StudySpec => []MetInOrder)
<1> SUFFICES ASSUME TwinsAlike PROVE StudySpec => []MetInOrder
  OBVIOUS
<1>1. StudyInv => MetInOrder
  <2> SUFFICES ASSUME StudyInv, NEW s \in (Seen(srs) \cap Hebrew) \ Granted
               PROVE  /\ srs[Bare(s)] # "none"
                      /\ Derived(s) => FamilyOf(s) \cap Qal \cap Seen(srs) # {}
    BY DEF MetInOrder, Derived
  <2>1. s \in Hebrew /\ s \notin Aramaic /\ Meetable(srs, s)
    BY DEF StudyInv, Sane, Stored, Now, IInv, Cards, Seen, Hebrew
  <2>2. Bare(s) \in Seen(srs)
    BY <2>1 DEF Meetable
  <2>3. s \in FamilyOf(s)
    BY <2>1 DEF FamilyOf
  <2> QED BY <2>1, <2>2, <2>3 DEF Meetable, Seen
<1> QED BY <1>1, StudyInvariant, PTL

-----------------------------------------------------------------------------
(* A call that drops its target finds a card *)

\* A letter that has been seen can be shown, and so can one that has not.
LEMMA SyllableShown ==
  ASSUME NEW x, Typed(x), Stored(x), NEW g \in Glyphs
  PROVE  /\ g \in Seen(x.letters) => Syllables(x, g) # {}
         /\ FirstSyllables(x, g) # {}
<1>1. CASE g \notin Vowels
  BY <1>1 DEF FirstSyllables, Syllables
<1>2. CASE g \in Vowels /\ Hosts(x) # {}
  BY <1>2 DEF FirstSyllables, Syllables
<1>3. CASE g \in Vowels /\ Hosts(x) = {}
  <2>1. g \notin Seen(x.letters)
    BY <1>3 DEF Stored, Hosts
  <2>2. PICK h \in Glyphs : h \notin Vowels \cup Hosts(x)
    BY <1>3, StudyAssumption
  <2>3. {h} \in FirstSyllables(x, g)
    BY <1>3, <2>2 DEF FirstSyllables
  <2> QED BY <2>1, <2>3
<1> QED BY <1>1, <1>2, <1>3

\* With no card to drill nothing is in learning.
LEMMA NothingToDrill ==
  ASSUME NEW x, Typed(x), Stored(x), Drills(x) = {}
  PROVE  /\ Learning(x.srs) = {} /\ Seen(x.srs) = Known(x.srs)
         /\ Learning(x.letters) = {} /\ Seen(x.letters) = Known(x.letters)
<1>1. Learning(x.srs) = {}
  BY DEF Drills, Word
<1>2. ASSUME NEW g \in Learning(x.letters) PROVE FALSE
  <2>1. g \in Glyphs /\ g \in Seen(x.letters)
    BY <1>2 DEF Learning, Seen, Typed
  <2>2. PICK a \in Syllables(x, g) : TRUE
    BY <2>1, SyllableShown
  <2>3. [x EXCEPT !.asked = a] \in Letter(x, Learning(x.letters))
    BY <1>2, <2>2 DEF Letter
  <2> QED BY <2>3 DEF Drills
<1>3. Seen(x.srs) = Known(x.srs)
  BY <1>1 DEF Typed, Cards, Card, Seen, Known, Learning
<1>4. Learning(x.letters) = {}
  BY <1>2
<1>5. Seen(x.letters) = Known(x.letters)
  BY <1>4 DEF Typed, Card, Seen, Known, Learning
<1> QED BY <1>1, <1>3, <1>4, <1>5

\* With every word met known, an ensured cache marks the Hebrew ones.
LEMMA EnsuredDone ==
  ASSUME NEW x, x.srs \in Cards, Stored(x), Seen(x.srs) = Known(x.srs)
  PROVE  Seen(x.srs) \cap Hebrew \subseteq Ensured(x.cache, x.srs).marked
<1>1. TwinsOf(Seen(x.srs)) \subseteq Done(x.srs)
  BY KnownTwins DEF TwinsOf, Known, Cards, Done, Twins
<1>2. x.cache.marked \subseteq Done(x.srs)
  BY <1>1 DEF Stored
<1>3. Ensured(x.cache, x.srs).marked = Done(x.srs)
  <2>1. CASE Accepts(x.cache, x.srs)
    <3>1. Cardinality(x.cache.marked) = Cardinality(Done(x.srs))
      BY <2>1 DEF Accepts
    <3>2. x.cache.marked = Done(x.srs)
      BY <1>2, <3>1, EquallyMany
    <3> QED BY <2>1, <3>2 DEF Ensured
  <2>2. CASE ~Accepts(x.cache, x.srs)
    BY <2>2 DEF Ensured, Rebuilt
  <2> QED BY <2>1, <2>2
<1>4. \A s \in Seen(x.srs) \cap Hebrew : s \in TwinsOf(Seen(x.srs))
  BY DEF TwinsOf, Twins, Seen, Cards
<1> QED BY <1>1, <1>3, <1>4

\* With no card to drill, a verse that carries a word introduces something.
LEMMA CarriedIsIntroduced ==
  ASSUME NEW x, Typed(x), Stored(x), Drills(x) = {},
         Seen(x.srs) \cap Hebrew \subseteq x.cache.marked,
         NEW v \in Studied, Carries(x, v, UnfinishedWords(x, v, ~LettersFirst(x))), NEW prefer \in BOOLEAN
  PROVE  Introductions(x, v, prefer) # {}
<1> DEFINE ws     == UnfinishedWords(x, v, ~LettersFirst(x) /\ Completable(x, v))
           new    == ws \ Seen(x.srs)
           ready  == {s \in new : /\ Cardinality(Learning(x.srs)) < WordsPerBatch
                                  /\ GlyphsOf[s] \subseteq Known(x.letters)}
           reach  == \E s \in new : GlyphsOf[s] \subseteq Seen(x.letters)
           GlyphsToSee(S) == (UNION {GlyphsOf[s] : s \in S}) \ Seen(x.letters)
           glyphs == IF Cardinality(Learning(x.letters)) >= LettersPerBatch THEN {}
                     ELSE IF GlyphsToSee(ws) # {} \/ ~prefer THEN GlyphsToSee(ws)
                     ELSE GlyphsToSee({s \in Hebrew : RulesOf[s] \subseteq x.unlocked})
           words  == UNION {NewWord(x, s) : s \in ready}
<1>1. Introductions(x, v, prefer) =
        IF glyphs # {} /\ (prefer \/ (ready = {} /\ ~reach)) THEN NewLetter(x, glyphs) ELSE words
  BY DEF Introductions
<1>2. /\ Learning(x.srs) = {} /\ Learning(x.letters) = {} /\ Seen(x.letters) = Known(x.letters)
  BY NothingToDrill
<1>3. Cardinality(Learning(x.srs)) < WordsPerBatch /\ ~(Cardinality(Learning(x.letters)) >= LettersPerBatch)
  BY <1>2, FS_EmptySet, StudyAssumption
<1>4. new = ws
  BY StudiedCounts DEF UnfinishedWords
<1>5. ws # {}
  BY DEF Carries, UnfinishedWords
<1>6. \A s \in Hebrew : GlyphsOf[s] \subseteq Glyphs
  BY StudyAssumption DEF Hebrew
<1>7. ws \subseteq Hebrew
  BY StudiedCounts DEF UnfinishedWords
<1>8. glyphs \subseteq Glyphs
  BY <1>6, <1>7
<1>9. ready = {} => ~reach /\ glyphs # {}
  BY <1>2, <1>3, <1>4, <1>5
<1>10. glyphs # {} => NewLetter(x, glyphs) # {}
  <2> SUFFICES ASSUME NEW g \in glyphs PROVE NewLetter(x, glyphs) # {}
    OBVIOUS
  <2>1. PICK a \in FirstSyllables(x, g) : TRUE
    BY <1>8, SyllableShown
  <2> HIDE DEF glyphs
  <2>2. [x EXCEPT !.asked = a] \in NewLetter(x, glyphs)
    BY <2>1 DEF NewLetter
  <2> QED BY <2>2
<1>11. ready # {} => words # {}
  <2> SUFFICES ASSUME NEW s \in ready PROVE words # {}
    OBVIOUS
  <2>1. NewWord(x, s) # {}
    BY DEF NewWord
  <2> QED BY <2>1
<1> HIDE DEF ready, reach, glyphs, words
<1> QED BY <1>1, <1>9, <1>10, <1>11

\* What a call that starts over comes to.
LEMMA StartedOverEnds ==
  ASSUME NEW x, Typed(x), Sane(x), x.call = "new", x.target = NoVerse,
         NEW lapse, NEW o \in NewItems(x, lapse)
  PROVE  o.call = "new"
<1>1. PICK F \in Frontiers(x), prefer \in BOOLEAN :
        \/ o = Choosing(x, F) \/ o \in Drills(Choosing(x, F))
        \/ \E v \in Targets(Choosing(x, F)) :
             o \in Towards([Choosing(x, F) EXCEPT !.target = v], lapse, prefer)
  BY NewItemsParts DEF PinsFrom
<1> DEFINE y == Choosing(x, F)
<1>2. F \in SUBSET Rules
  BY DEF Frontiers
<1>3. /\ y.srs = x.srs /\ y.call = "new" /\ y.cache = Ensured(x.cache, x.srs)
      /\ Typed(y) /\ Sane(y)
  BY <1>2, ChoosingSane DEF Choosing, Typed, IsOutcome, Fields
<1>4. CASE o = y \/ o \in Drills(y)
  <2> HIDE DEF y
  <2> QED BY <1>3, <1>4, DrillsTyped
<1>5. ASSUME NEW v \in Targets(y), o \in Towards([y EXCEPT !.target = v], lapse, prefer)
      PROVE  o.call = "new"
  <2> DEFINE z == [y EXCEPT !.target = v]
  <2>1. v \in Studied /\ Carries(y, v, UnfinishedWords(y, v, ~LettersFirst(y)))
    BY <1>5 DEF Targets
  <2>2. Typed(z) /\ Sane(z) /\ z.target = v
    BY <1>2, <2>1, ChoosingSane
  <2> HIDE DEF y
  <2>3. z.srs = x.srs /\ z.cache = y.cache /\ z.unlocked = y.unlocked /\ z.call = "new"
    BY <1>3 DEF Typed, IsOutcome, Fields
  <2>4. /\ \A names : UnfinishedWords(z, v, names) = UnfinishedWords(y, v, names)
        /\ LettersFirst(z) = LettersFirst(y) /\ Completable(z, v) = Completable(y, v)
    BY <1>3, <2>3 DEF UnfinishedWords, LettersFirst, Completable
  <2>5. Carries(z, v, UnfinishedWords(z, v, ~LettersFirst(z)))
    BY <2>1, <2>4 DEF Carries
  <2>6. o \in Towards(z, lapse, prefer)
    BY <1>5
  <2> HIDE DEF z
  <2>7. CASE \E w \in Studied : o \in Introductions(z, w, prefer)
    BY <2>2, <2>3, <2>7, IntroductionsTyped
  <2>8. CASE o = [z EXCEPT !.reading = v, !.target = NoVerse]
    BY <2>2, <2>3, <2>8 DEF Typed, IsOutcome, Fields
  <2>9. CASE o \in Drills(z)
    BY <2>2, <2>3, <2>9, DrillsTyped
  <2>10. UnfinishedWords(z, v, TRUE) # {}
    BY <2>5 DEF Carries, UnfinishedWords
  <2>11. ASSUME Drills(z) = {} PROVE Introductions(z, v, prefer) # {}
    <3>1. Stored(z)
      BY <2>2 DEF Sane
    <3>2. Seen(x.srs) = Known(x.srs)
      BY <2>2, <2>3, <2>11, <3>1, NothingToDrill
    <3>3. Seen(z.srs) \cap Hebrew \subseteq z.cache.marked
      BY <1>3, <2>3, <3>2, EnsuredDone DEF Typed, Sane
    <3> QED BY <2>1, <2>2, <2>5, <2>11, <3>1, <3>3, CarriedIsIntroduced
  <2>12. \A w \in OtherTargets(z, v) : w \in Studied
    BY DEF OtherTargets
  <2> QED BY <2>1, <2>2, <2>6, <2>7, <2>8, <2>9, <2>10, <2>11, <2>12, TowardsParts
<1> QED BY <1>1, <1>4, <1>5

\* A call that drops its target never drops another in turn: it finds something
\* to introduce, to read or to drill, or that there is nothing to aim at, for
\* any curriculum, pace and corpus, whatever was learnt and forgotten before.
THEOREM TargetingCorrect == StudySpec => []TargetingEnds
<1>1. StudyInv => TargetingEnds
  <2> SUFFICES ASSUME StudyInv, ~Over, NEW o \in NewItems(Here, call = "lapsed")
               PROVE  o.call = "new"
    BY DEF TargetingEnds
  <2>1. Here.target = NoVerse
    BY DEF Over, StudyInv, StudyTyped, Sane, Screen, Now, Here
  <2> QED BY <2>1, HereSane, StartedOverEnds
<1> QED BY <1>1, StudyInvariant, PTL
=============================================================================
