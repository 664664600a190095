---------------------------- MODULE Readability -----------------------------
(***************************************************************************)
(* The tutor's readability cache on one device                             *)
(* (crates/haqor-core/src/tutor.rs): which surfaces of the corpus are      *)
(* learnt, surface_progress, and how many words of each verse are not,     *)
(* verse_progress, derived from the cards in word_srs.  Learning a word    *)
(* brings them up to date in place; everything else that changes the cards *)
(* -- a card forgotten, words seeded as known, a merged snapshot -- relies *)
(* on ensure_readability_progress, which compares a version stamp and two  *)
(* counts.  Which word or verse is chosen next is left open, as are the    *)
(* dates of the reviews.                                                   *)
(***************************************************************************)
EXTENDS Naturals, FiniteSets

CONSTANTS Surfaces,        \* the spellings of the corpus
          Aramaic,         \* the Aramaic ones, which surface_meta leaves out
          Vkey,            \* the vocabulary key each spelling folds to
          Names,           \* those that are shown once and seeded as known
          Verses,
          Words,           \* the surfaces of each verse
          NoVerse,
          MaxForgets,      \* bound: known words forgotten, and resets cut short
          MaxSeeds,        \* bound: seedings of frequent words
          MaxMerges,       \* bound: merged snapshots
          MaxResets, MaxKills

ASSUME ReadabilityAssumption ==
  /\ IsFiniteSet(Surfaces) /\ IsFiniteSet(Verses)
  /\ Vkey \in [Surfaces -> Surfaces]
  /\ Aramaic \subseteq Surfaces /\ Names \subseteq Surfaces \ Aramaic
  /\ Words \in [Verses -> (SUBSET Surfaces) \ {{}}]
  /\ NoVerse \notin Verses
  /\ \A n \in {MaxForgets, MaxSeeds, MaxMerges, MaxResets, MaxKills} : n \in Nat

VARIABLES srs,             \* the cards: no row, still learning, or known
          cache,           \* the stamp, whether the surfaces have their rows,
                           \* those marked graduated, and the unknown words of
                           \* each verse
          target,          \* the verse pinned in meta
          reading,         \* the verse on the screen to be read, if one is
          resetKnown,      \* whether meta has a tutor.reset_epoch
          forgets, seeds, merges, resets, kills,
          torn             \* ghost: a kill fell between the statements of a record

vars == <<srs, cache, target, reading, resetKnown,
          forgets, seeds, merges, resets, kills, torn>>
rest == <<resetKnown, forgets, seeds, merges, resets, kills, torn>>

Card == {"none", "learning", "known"}
Counts == [Verses -> Nat]
NoRows == [v \in {} |-> 0]

-----------------------------------------------------------------------------
(* The cache *)

\* surface_meta has a row for every Hebrew surface, verse_meta for every verse
\* without an Aramaic one.
Hebrew == Surfaces \ Aramaic
Studied == {v \in Verses : Words[v] \cap Aramaic = {}}

\* The surfaces of one vocabulary key; an Aramaic one has no key.
Twins(s) == {t \in Hebrew : s \in Hebrew /\ Vkey[t] = Vkey[s]}

\* DONE_SURFACES, as the surfaces whose vocabulary key is done.
Done(cards) == UNION {Twins(s) : s \in {t \in Surfaces : cards[t] = "known"}}

\* The distinct vocabulary keys of a verse that are not marked graduated, as
\* record_surface_graduation counts them; and as a rebuild does, for which every
\* Aramaic surface is an unknown word.
Unlearnt(marked, v) == Cardinality({Vkey[s] : s \in (Words[v] \cap Hebrew) \ marked})
Unknown(marked, v) == Unlearnt(marked, v) + Cardinality(Words[v] \cap Aramaic)

\* Mutant: only the stamp and the number of rows are compared.
AcceptsFull(c, cards) == c.stamp /\ c.full

\* The stamp, the number of rows and the number of those marked.
Accepts(c, cards) ==
  /\ c.stamp
  /\ c.full
  /\ Cardinality(c.marked) = Cardinality(Done(cards))

Rebuilt(cards) ==
  [stamp |-> TRUE, full |-> TRUE, marked |-> Done(cards),
   unknown |-> [v \in Verses |-> Unknown(Done(cards), v)]]

\* ensure_readability_progress.
Ensured(c, cards) == IF Accepts(c, cards) THEN c ELSE Rebuilt(cards)

\* Mutant: the verses of a twin are not recalculated.
RecalculatedOwn(c, s) ==
  [c EXCEPT !.unknown = [v \in Verses |->
     IF s \in Words[v] THEN Unlearnt(c.marked, v) ELSE @[v]]]

\* Mutant: each spelling learnt is taken off the count, instead of a recount.
RecalculatedLess(c, s) ==
  [c EXCEPT !.unknown = [v \in Verses |-> @[v] - Cardinality(Words[v] \cap Twins(s))]]

\* record_surface_graduation: the twins are marked, and if one of them was not
\* yet, the verses that hold one are counted anew, by a second statement.
Marked(c, s) == [c EXCEPT !.marked = @ \cup Twins(s)]
Recalculated(c, s) ==
  [c EXCEPT !.unknown = [v \in Verses |->
     IF Words[v] \cap Twins(s) # {} THEN Unlearnt(c.marked, v) ELSE @[v]]]
Recorded(c, s) ==
  IF Twins(s) \subseteq c.marked THEN c ELSE Recalculated(Marked(c, s), s)

-----------------------------------------------------------------------------
(* next_study_item *)

Item(cards, c, pin, verse) == [srs |-> cards, cache |-> c, target |-> pin, reading |-> verse]

\* A due card; now and then a due word is put back into a verse that counts no
\* unknown word, if there is one.
Reviews(cards, c, pin) ==
  LET e == Ensured(c, cards)
  IN  {Item(cards, c, pin, NoVerse), Item(cards, e, pin, NoVerse)}
        \cup {Item(cards, e, pin, v) :
                v \in {w \in Verses : /\ e.unknown[w] = 0
                                      /\ \E s \in Words[w] : cards[s] # "none"}}

\* Otherwise the pinned verse, one without Aramaic.  A verse with a word not
\* marked has a card to drill, or a word without a card is shown, from this verse
\* or another, a name being seeded as known; or the pin is dropped, perhaps for a
\* new one.  A verse every word of which is marked is offered for reading, after
\* its forms and reading marks.
Unread(c) == {v \in Studied : ~(Words[v] \subseteq c.marked)}
Pins(e, pin) ==
  IF pin \in Unread(e) \cup {NoVerse} THEN Unread(e) \cup {NoVerse} ELSE {pin}
Fresh(cards, e) ==
  {s \in UNION {Words[v] : v \in Studied} : s \notin e.marked /\ cards[s] = "none"}
Lessons(cards, c, pin) ==
  LET e == Ensured(c, cards)
  IN  {Item(cards, e, v, NoVerse) : v \in Pins(e, pin)}
        \cup {Item(IF s \in Names THEN [cards EXCEPT ![s] = "known"] ELSE cards, e, v, NoVerse) :
                s \in Fresh(cards, e), v \in Pins(e, pin) \cap Unread(e)}
        \cup {Item(cards, e, NoVerse, v) : v \in Pins(e, pin) \ (Unread(e) \cup {NoVerse})}

NextItems(cards, c, pin) == Reviews(cards, c, pin) \cup Lessons(cards, c, pin)

Show(item) ==
  /\ srs' = item.srs /\ cache' = item.cache
  /\ target' = item.target /\ reading' = item.reading

-----------------------------------------------------------------------------
(* Actions *)

Init ==
  /\ srs = [s \in Surfaces |-> "none"]
  /\ cache = [stamp |-> FALSE, full |-> FALSE, marked |-> {}, unknown |-> NoRows]
  /\ target = NoVerse /\ reading = NoVerse
  /\ forgets = 0 /\ seeds = 0 /\ merges = 0 /\ resets = 0 /\ kills = 0
  /\ resetKnown = FALSE /\ torn = FALSE

NextStudyItem ==
  /\ \E item \in NextItems(srs, cache, target) : Show(item)
  /\ UNCHANGED rest

\* submit_review of the word s, whose card comes out as `next`; the next item
\* follows in the same call.
Graduates(s, next) == srs[s] # "known" /\ next = "known"
Forgets(s, next) == srs[s] = "known" /\ next = "learning"
Graded(s, next) == [srs EXCEPT ![s] = next]

\* The cache is brought up to date before the card is written, and the word is
\* recorded after.
CacheAfter(s, next) ==
  IF Graduates(s, next) THEN Recorded(Ensured(cache, srs), s) ELSE cache

SubmitReview(s, next) ==
  /\ Forgets(s, next) => forgets < MaxForgets
  /\ forgets' = IF Forgets(s, next) THEN forgets + 1 ELSE forgets
  /\ \E item \in NextItems(Graded(s, next), CacheAfter(s, next),
                           IF Graduates(s, next) THEN NoVerse ELSE target) : Show(item)
  /\ UNCHANGED <<resetKnown, seeds, merges, resets, kills, torn>>

\* The app is killed once the card is written, before the word is recorded in
\* the cache, or between the two statements that record it.
Killed == kills < MaxKills /\ kills' = kills + 1
KilledInReview(s) ==
  /\ Graduates(s, "known")
  /\ Killed
  /\ srs' = Graded(s, "known")
  /\ cache' = Ensured(cache, srs)
  /\ reading' = NoVerse
  /\ UNCHANGED <<target, resetKnown, forgets, seeds, merges, resets, torn>>
KilledInRecord(s) ==
  /\ Graduates(s, "known")
  /\ Killed
  /\ srs' = Graded(s, "known")
  /\ cache' = Marked(Ensured(cache, srs), s)
  /\ torn' = TRUE
  /\ reading' = NoVerse
  /\ UNCHANGED <<target, resetKnown, forgets, seeds, merges, resets>>

\* seed_known_vocab: Hebrew words without a card get one as known; nothing else.
SeedKnownVocab(ws) ==
  /\ seeds < MaxSeeds
  /\ seeds' = seeds + 1
  /\ srs' = [s \in Surfaces |-> IF s \in ws /\ srs[s] = "none" THEN "known" ELSE srs[s]]
  /\ UNCHANGED <<cache, target, reading, resetKnown, forgets, merges, resets, kills, torn>>

\* merge_attached_snapshot brings cards in and replaces others; it takes away
\* those dated before a reset that either side knows of, seeded ones always.  The
\* cache is dropped only if the reset is new to the device.
Merge(cards, newReset) ==
  /\ merges < MaxMerges
  /\ merges' = merges + 1
  /\ newReset \/ resetKnown \/ \A s \in Surfaces : srs[s] # "none" => cards[s] # "none"
  /\ srs' = cards
  /\ cache' = IF newReset THEN [cache EXCEPT !.stamp = FALSE] ELSE cache
  /\ resetKnown' = (resetKnown \/ newReset)
  /\ UNCHANGED <<target, reading, forgets, seeds, resets, kills, torn>>

\* reset_tutor, in full or killed after the cards, the marks, the counts, or
\* meta, whose reset stamp is written last.
Wiped(statements) ==
  [stamp   |-> cache.stamp /\ statements < 4,
   full    |-> cache.full /\ statements < 2,
   marked  |-> IF statements < 2 THEN cache.marked ELSE {},
   unknown |-> IF statements < 3 THEN cache.unknown ELSE NoRows]
Reset(statements) ==
  /\ resets < MaxResets
  /\ resets' = resets + 1
  /\ srs' = [s \in Surfaces |-> "none"]
  /\ cache' = Wiped(statements)
  /\ target' = IF statements >= 4 THEN NoVerse ELSE target
  /\ reading' = NoVerse
ResetTutor ==
  /\ Reset(4)
  /\ resetKnown' = TRUE
  /\ UNCHANGED <<forgets, seeds, merges, kills, torn>>
KilledInReset ==
  /\ Killed
  /\ forgets < MaxForgets
  /\ forgets' = forgets + 1
  /\ \E statements \in 1..4 : /\ Reset(statements)
                              /\ resetKnown' = (resetKnown /\ statements < 4)
  /\ UNCHANGED <<seeds, merges, torn>>

\* tutor_progress and tutor_stats, which show how many verses are readable.
TutorProgress ==
  /\ cache' = Ensured(cache, srs)
  /\ UNCHANGED <<srs, target, reading, rest>>

Next ==
  \/ NextStudyItem
  \/ TutorProgress
  \/ \E s \in Surfaces, next \in {"learning", "known"} : SubmitReview(s, next)
  \/ \E s \in Surfaces : KilledInReview(s) \/ KilledInRecord(s)
  \/ \E ws \in (SUBSET Hebrew) \ {{}} : SeedKnownVocab(ws)
  \/ \E cards \in [Surfaces -> Card], newReset \in BOOLEAN : Merge(cards, newReset)
  \/ ResetTutor
  \/ KilledInReset

Spec == Init /\ [][Next]_vars

\* The learner looks at the progress again and again.
FairSpec == Spec /\ WF_vars(TutorProgress)

-----------------------------------------------------------------------------
(* Properties *)

\* The type invariant.
TypeOK ==
  /\ srs \in [Surfaces -> Card]
  /\ DOMAIN cache = {"stamp", "full", "marked", "unknown"}
  /\ cache.stamp \in BOOLEAN /\ cache.full \in BOOLEAN
  /\ cache.marked \subseteq Hebrew
  /\ cache.unknown \in Counts \cup {NoRows}
  /\ target \in Studied \cup {NoVerse}
  /\ reading \in Verses \cup {NoVerse}
  /\ forgets \in 0..MaxForgets /\ seeds \in 0..MaxSeeds /\ merges \in 0..MaxMerges
  /\ resets \in 0..MaxResets /\ kills \in 0..MaxKills
  /\ resetKnown \in BOOLEAN /\ torn \in BOOLEAN

\* The two tables of the cache agree, however stale they are: what counts as
\* unknown in a verse is what is not marked, whatever spelling was learnt and
\* wherever the app was killed but between the two statements of a record.  In a
\* verse that mixes Hebrew and Aramaic the Aramaic words count after a rebuild
\* and not after a recount: its count may be 0, and the verse be shown for
\* reading, although its Aramaic words were never learnt.
CountsFollowMarks ==
  cache.stamp /\ cache.full /\ ~torn =>
    /\ \A v \in Studied : cache.unknown[v] = Cardinality({Vkey[s] : s \in Words[v] \ cache.marked})
    /\ \A v \in Verses \ Studied :
         cache.unknown[v] \in {Unlearnt(cache.marked, v), Unknown(cache.marked, v)}

\* While no card was forgotten, replaced from elsewhere or lost to a reset cut
\* short, comparing two counts is enough: once ensured, exactly the learnt words
\* are marked, although words were seeded, shown as names, or learnt as another
\* spelling in between, and wherever else the app was killed.
ExactUntilForgotten ==
  forgets = 0 /\ merges = 0 => Ensured(cache, srs).marked = Done(srs)

\* Who has learnt every Hebrew word for good comes to see every verse without
\* Aramaic as readable, whatever the cache missed on the way, if no record was
\* torn.
AllKnown == \A s \in Hebrew : srs[s] = "known"
AllReadable ==
  cache.unknown # NoRows /\ \A v \in Studied : cache.unknown[v] = 0
LearntIsReadable == []~torn /\ <>[]AllKnown => <>[]AllReadable
=============================================================================
