----------------------------- MODULE StudyItems -----------------------------
(***************************************************************************)
(* What the tutor shows next (crates/haqor-core/src/tutor.rs,              *)
(* next_study_item and submit_review): reviews that are due, then new      *)
(* letters, grammar rules and words towards a pinned verse, then cards in  *)
(* learning, under the gates of the curriculum: batches, the letters of a  *)
(* word, unlocked rules, the Qal of a verbal family, the bare form of a    *)
(* prefixed word.  It is one way to make the choices that Readability      *)
(* leaves open.                                                            *)
(*                                                                         *)
(* Left open here: which of several candidates frequency puts first, which *)
(* cards are due, how often a card must be recalled, and whether letters   *)
(* are under their share of introductions.  Left out: the cards that only  *)
(* explain the script, form and suffix drills and reading marks, none of   *)
(* which any gate waits for.                                               *)
(***************************************************************************)
EXTENDS Readability, FiniteSetsExt

CONSTANTS Glyphs, Vowels, GlyphsOf,   \* the glyphs of each surface
          LetterOf,                   \* the base letter a consonant counts as, if any
          CountedVowels,              \* the vowel points that count, and how many
          ConsonantTarget, VowelTarget, \* of each grammar waits for
          Rules, Bucket, RulesOf,     \* grammar concepts, and those of a surface;
                                      \* one outside Rules makes it unteachable
          Root, NoRoot, Tier, Qal,    \* the root of a surface, how complex a form
          VerbTier,                   \* it is, and from which tier it is a verb
          BareKey,                    \* the vocabulary key without proclitics
          Glossed,                    \* names with a gloss of their own, that are
                                      \* drilled as words are
          Frequent,                   \* the sets a placement can seed as known
          LettersPerBatch, WordsPerBatch, WordsPerConcept, GrammarGating

\* Surfaces are numbered as surface_id does.
ASSUME StudyAssumption ==
  /\ Surfaces \subseteq Nat /\ Glyphs \cap Surfaces = {}
  /\ DOMAIN LetterOf \subseteq Glyphs \ Vowels /\ CountedVowels \subseteq Vowels
  /\ ConsonantTarget \in Nat /\ VowelTarget \in Nat
  /\ Vowels \subseteq Glyphs /\ Glyphs \ Vowels # {}
  /\ GlyphsOf \in [Surfaces -> SUBSET Glyphs]
  /\ Bucket \in [Rules -> Nat] /\ IsFiniteSet(Rules)
  /\ DOMAIN RulesOf = Surfaces /\ DOMAIN Root = Surfaces
  /\ Tier \in [Surfaces -> Nat] /\ Qal \subseteq Hebrew /\ VerbTier \in Nat
  /\ BareKey \in [Hebrew -> {Vkey[s] : s \in Hebrew}]
  /\ Glossed \subseteq Hebrew \ Names
  /\ Frequent \subseteq (SUBSET Hebrew) \ {{}}
  /\ {LettersPerBatch, WordsPerBatch, WordsPerConcept} \subseteq Nat \ {0}
  /\ GrammarGating \in BOOLEAN

VARIABLES letters,         \* glyph_srs
          unlocked,        \* concepts_unlocked
          explained,       \* the rules in concepts_seen
          asked,           \* what the card on the screen asks: a word or glyphs
          call             \* how the last call went: it found something "due", or
                           \* did not and found what is "new", or dropped its
                           \* target and starts over: "again", or "lapsed" if it
                           \* follows a lapse

study == <<letters, unlocked, explained, asked, call>>
allVars == <<vars, study>>

Learning(cards) == {k \in DOMAIN cards : cards[k] = "learning"}
Known(cards) == {k \in DOMAIN cards : cards[k] = "known"}
Seen(cards) == {k \in DOMAIN cards : cards[k] # "none"}

-----------------------------------------------------------------------------
(* The corpus, as ensure_surface_meta caches it *)

\* base_surface_id: the first surface of the bare form's key.
Bare(s) == Min({t \in Hebrew : Vkey[t] = BareKey[s]})

\* is_name.
AllNames == Names \cup Glossed

FamilyOf(s) == {t \in Hebrew : Root[t] = Root[s]}
TiersOf(S) == {Tier[t] : t \in S}

\* family_base: the simplest Qal of a root, or its simplest form if it has none.
FamilyBase(s) ==
  \/ Root[s] = NoRoot
  \/ IF FamilyOf(s) \cap Qal # {}
     THEN s \in Qal /\ Tier[s] = Min(TiersOf(FamilyOf(s) \cap Qal))
     ELSE Tier[s] = Min(TiersOf(FamilyOf(s)))

\* KNOWN_QAL_ROOTS.
KnownQalRoots(cards) ==
  {Root[s] : s \in {t \in Known(cards) : t \in Qal \ AllNames /\ FamilyBase(t)}} \ {NoRoot}

FamilyReady(cards, s) ==
  Root[s] = NoRoot \/ s \in AllNames \/ Tier[s] < VerbTier \/ FamilyBase(s)
    \/ Root[s] \in KnownQalRoots(cards)

LexicalBaseReady(cards, s) == Bare(s) = s \/ cards[Bare(s)] # "none"

-----------------------------------------------------------------------------
(* One call, as the set of its outcomes: what it leaves in the database and on *)
(* the screen *)

Here ==
  [srs |-> srs, letters |-> letters, cache |-> cache, target |-> target,
   unlocked |-> unlocked, explained |-> explained,
   reading |-> NoVerse, asked |-> {}, call |-> "new"]

\* all_letters_known: glyphs of one base letter count once.
AllLettersKnown(x) ==
  /\ Cardinality({LetterOf[g] : g \in DOMAIN LetterOf \cap Known(x.letters)}) >= ConsonantTarget
  /\ Cardinality(CountedVowels \cap Known(x.letters)) >= VowelTarget

\* How many rules the words known pay for, once the letters are known.
PacedRules(x) ==
  IF AllLettersKnown(x)
  THEN Min({Cardinality(Rules), 1 + Cardinality(Known(x.srs)) \div WordsPerConcept})
  ELSE 0

\* unlocked_concepts: rules unlock one at a time, the buckets in order, and stay.
Frontiers(x) ==
  IF ~GrammarGating THEN {Rules}
  ELSE {F \in SUBSET Rules :
          /\ x.unlocked \subseteq F
          /\ F # x.unlocked => Cardinality(F) <= PacedRules(x)
          /\ Cardinality(F) >= PacedRules(x)
          /\ \A r \in F \ x.unlocked, q \in Rules \ F : Bucket[r] <= Bucket[q]}

LettersFirst(x) == GrammarGating /\ x.unlocked = {}

\* Mutant: the bare form is left to the choice of verses.
OpenBare(x, v, withNames) ==
  {s \in Words[v] \ x.cache.marked :
     /\ RulesOf[s] \subseteq x.unlocked
     /\ FamilyReady(x.srs, s)
     /\ withNames \/ s \notin AllNames}

\* unfinished_words.
UnfinishedWords(x, v, withNames) ==
  {s \in Words[v] \ x.cache.marked :
     /\ RulesOf[s] \subseteq x.unlocked
     /\ FamilyReady(x.srs, s) /\ LexicalBaseReady(x.srs, s)
     /\ withNames \/ s \notin AllNames}

\* verse_completable.
Completable(x, v) == \A s \in Words[v] \ x.cache.marked : RulesOf[s] \subseteq x.unlocked

\* next_target_verse: verses with a word to introduce, and not for names alone
\* if the verse cannot be finished.
Carries(x, v, ws) == ws # {} /\ (Completable(x, v) \/ ~(ws \subseteq AllNames))
\* Mutant: a name makes a verse worth choosing, though names wait for letters.
TargetsForNames(x) == {v \in Studied : UnfinishedWords(x, v, TRUE) # {}}

Targets(x) == {v \in Studied : Carries(x, v, UnfinishedWords(x, v, ~LettersFirst(x)))}

\* next_target_verse_excluding: another verse with a word that has no card.
OtherTargets(x, pin) ==
  {v \in Studied \ {pin} :
     Carries(x, v, UnfinishedWords(x, v, ~LettersFirst(x)) \ Seen(x.srs))}

\* A vowel is shown on a consonant, which is graded with it; a new one after a
\* consonant that can carry it, if none was seen.
Hosts(x) == Seen(x.letters) \ Vowels
Syllables(x, g) == IF g \in Vowels THEN {{g, h} : h \in Hosts(x)} ELSE {{g}}
FirstSyllables(x, g) ==
  Syllables(x, g)
    \cup IF g \in Vowels THEN {{h} : h \in Glyphs \ (Vowels \cup Hosts(x))} ELSE {}
Letter(x, gs) == {[x EXCEPT !.asked = a] : a \in UNION {Syllables(x, g) : g \in gs}}
Word(x, ss) == {[x EXCEPT !.asked = {s}] : s \in ss}
NewLetter(x, gs) == {[x EXCEPT !.asked = a] : a \in UNION {FirstSyllables(x, g) : g \in gs}}

\* A word after the rules it exercises; a name without a gloss is shown
\* once and seeded.
NewWord(x, s) ==
  LET rules == (RulesOf[s] \cap Rules) \ x.explained
  IN  IF rules # {} THEN {[x EXCEPT !.explained = @ \cup {r}] : r \in rules}
      ELSE {[x EXCEPT !.asked = {s}, !.srs[s] = IF s \in Names THEN "known" ELSE @]}

\* next_introduction: a word whose glyphs are all known, or a glyph not seen,
\* of this verse or, if letters are preferred, of any surface that is not behind
\* a rule; each within its batch.  A glyph waits while a word is within reach,
\* unless letters are preferred.
Introductions(x, v, prefer) ==
  LET ws     == UnfinishedWords(x, v, ~LettersFirst(x) /\ Completable(x, v))
      new    == ws \ Seen(x.srs)
      ready  == {s \in new : /\ Cardinality(Learning(x.srs)) < WordsPerBatch
                             /\ GlyphsOf[s] \subseteq Known(x.letters)}
      reach  == \E s \in new : GlyphsOf[s] \subseteq Seen(x.letters)
      GlyphsToSee(S) == (UNION {GlyphsOf[s] : s \in S}) \ Seen(x.letters)
      glyphs == IF Cardinality(Learning(x.letters)) >= LettersPerBatch THEN {}
                ELSE IF GlyphsToSee(ws) # {} \/ ~prefer THEN GlyphsToSee(ws)
                ELSE GlyphsToSee({s \in Hebrew : RulesOf[s] \subseteq x.unlocked})
  IN  IF glyphs # {} /\ (prefer \/ (ready = {} /\ ~reach))
      THEN NewLetter(x, glyphs)
      ELSE UNION {NewWord(x, s) : s \in ready}

\* Mutant: only words are pulled forward.
WordDrills(x) == Word(x, Learning(x.srs))

\* Mutant: the words in learning are pulled forward together.
TogetherDrills(x) == {[x EXCEPT !.asked = Learning(x.srs)]} \cup Letter(x, Learning(x.letters))

\* next_review, pulled forward: a card still in learning, due or not.
Drills(x) ==
  Word(x, Learning(x.srs)) \cup Letter(x, Learning(x.letters))

StartOver(x, lapse) ==
  {[x EXCEPT !.target = NoVerse, !.call = IF lapse THEN "lapsed" ELSE "again"]}

\* With the verse pinned: something new, or the finished verse to read, or the
\* pin is dropped if all it lacks is behind a family or a bare form; after a
\* lapse, something new from another verse; or a card in learning.
Towards(x, lapse, prefer) ==
  LET v      == x.target
      new    == Introductions(x, v, prefer)
      others == {Introductions(x, w, prefer) : w \in IF lapse THEN OtherTargets(x, v) ELSE {}}
  IN  IF new # {} THEN new
      ELSE IF Words[v] \subseteq x.cache.marked
           THEN {[x EXCEPT !.reading = v, !.target = NoVerse]}
      ELSE IF UnfinishedWords(x, v, TRUE) = {} THEN StartOver(x, lapse)
      ELSE (UNION others)
             \cup IF others # {} /\ {} \notin others THEN {}
                  ELSE IF Drills(x) # {} THEN Drills(x) ELSE StartOver(x, lapse)

\* Mutant: the choice is made from the cache as it was left.
ChoosingFromStale(x, frontier) == [x EXCEPT !.unlocked = frontier]

\* What a choice is made from: the rules unlocked and the cache brought up to date.
Choosing(x, frontier) == [x EXCEPT !.unlocked = frontier, !.cache = Ensured(@, x.srs)]

\* next_study_item_impl with nothing due.  Without a verse to aim at, a card in
\* learning or nothing.
NewItems(x, lapse) ==
  UNION {LET y    == Choosing(x, F)
             pins == IF x.target # NoVerse THEN {x.target} ELSE Targets(y)
         IN  IF pins = {} THEN IF Drills(y) = {} THEN {y} ELSE Drills(y)
             ELSE UNION {Towards([y EXCEPT !.target = v], lapse, prefer) : v \in pins} :
         F \in Frontiers(x), prefer \in BOOLEAN}

\* next_review of a due card, now and then instead of a word a verse that holds
\* it and counts no unknown word.
DueItems(x) ==
  LET d == [x EXCEPT !.call = "due"]
      e == [d EXCEPT !.cache = Ensured(@, x.srs)]
  IN  Letter(d, Seen(x.letters))
        \cup Word(d, Seen(x.srs)) \cup Word(e, Seen(x.srs))
        \cup {[e EXCEPT !.reading = v] :
                v \in {w \in Verses : e.cache.unknown[w] = 0 /\ Words[w] \cap Seen(x.srs) # {}}}

Call(x, due, lapse) ==
  \E o \in IF due THEN DueItems(x) ELSE NewItems(x, lapse) :
    /\ srs' = o.srs /\ letters' = o.letters
    /\ cache' = o.cache /\ target' = o.target
    /\ unlocked' = o.unlocked /\ explained' = o.explained
    /\ reading' = o.reading /\ asked' = o.asked /\ call' = o.call

-----------------------------------------------------------------------------
(* Actions *)

StudyInit ==
  /\ Init
  /\ letters = [g \in Glyphs |-> "none"]
  /\ unlocked = {} /\ explained = {}
  /\ asked = {} /\ call = "new"

Over == call \in {"due", "new"}

\* next_study_item, asked again after a card that has no answer, or without one.
Ask(due) == Over /\ Call(Here, due, FALSE) /\ UNCHANGED rest

\* A call that dropped its target starts over; what was not due is not due now.
Retarget == ~Over /\ Call(Here, FALSE, call = "lapsed") /\ UNCHANGED rest

\* submit_review of the word asked, or of one misread in the verse shown.
AnswerWord(s, grade, next, due) ==
  /\ Over
  /\ asked = {s} \/ (reading \in Verses /\ s \in Words[reading] /\ grade = "again")
  /\ next \in IF grade = "again" THEN {"learning"}
              ELSE IF srs[s] = "known" THEN {"known"} ELSE {"learning", "known"}
  /\ Forgets(s, next) => forgets < MaxForgets
  /\ forgets' = IF Forgets(s, next) THEN forgets + 1 ELSE forgets
  /\ Call([Here EXCEPT !.srs = Graded(s, next), !.cache = CacheAfter(s, next),
                       !.target = IF Graduates(s, next) THEN NoVerse ELSE @],
          due, grade = "again")
  /\ UNCHANGED <<resetKnown, seeds, merges, resets, kills, torn>>

\* submit_review of the glyphs asked, some of which are known from now on.
GradedGlyphs(grade, learnt) ==
  [g \in Glyphs |-> IF g \notin asked THEN letters[g]
                    ELSE IF grade = "again" THEN "learning"
                    ELSE IF g \in learnt \cup Known(letters) THEN "known" ELSE "learning"]
AnswerGlyphs(grade, learnt, due) ==
  /\ Over
  /\ asked # {} /\ asked \subseteq Glyphs /\ learnt \subseteq asked
  /\ Call([Here EXCEPT !.letters = GradedGlyphs(grade, learnt)], due, grade = "again")
  /\ UNCHANGED rest

\* seed_known_vocab at one of the thresholds, and seed_known_alphabet.
SeedVocab ==
  /\ Over
  /\ \E ws \in Frequent : SeedKnownVocab(ws)
  /\ UNCHANGED study
SeedKnownAlphabet ==
  /\ Over
  /\ letters' = [g \in Glyphs |-> IF letters[g] = "none" THEN "known" ELSE letters[g]]
  /\ UNCHANGED <<vars, unlocked, explained, asked, call>>

StudyNext ==
  \/ \E due \in BOOLEAN :
       \/ Ask(due)
       \/ \E s \in Surfaces, grade \in {"again", "good"}, next \in {"learning", "known"} :
            AnswerWord(s, grade, next, due)
       \/ \E grade \in {"again", "good"}, learnt \in SUBSET Glyphs :
            AnswerGlyphs(grade, learnt, due)
  \/ Retarget
  \/ SeedVocab
  \/ SeedKnownAlphabet

StudySpec == StudyInit /\ [][StudyNext]_allVars

\* The learner goes on from what is known or has no answer, and comes back when
\* nothing is due; a card that is shown again and again is at last recalled
\* often enough.
GoOn ==
  call = "new" /\ asked \subseteq Known(srs) \cup Known(letters) /\ Ask(FALSE)
FairStudySpec ==
  /\ StudySpec
  /\ WF_allVars(GoOn) /\ WF_allVars(Retarget)
  /\ []<>(call # "due")
  /\ \A s \in Surfaces : []<>(asked = {s} /\ srs[s] # "known") => []<>(srs[s] = "known")
  /\ \A g \in Glyphs : []<>(g \in asked /\ letters[g] # "known") => []<>(letters[g] = "known")

-----------------------------------------------------------------------------
(* Properties *)

\* The type invariant.
StudyTypeOK ==
  /\ TypeOK
  /\ letters \in [Glyphs -> Card]
  /\ unlocked \subseteq Rules /\ explained \subseteq Rules
  /\ asked \subseteq Glyphs \/ \E s \in Surfaces : asked = {s}
  /\ call \in {"due", "new", "again", "lapsed"}

\* What the comment in next_target_verse asks of its gate: a verse that was
\* chosen has something to introduce or to drill, or targeting would spin.  A
\* call that drops its target finds another that it can use, or that there is
\* none, whatever it chooses among.
TargetingEnds == ~Over => \A o \in NewItems(Here, call = "lapsed") : o.call = "new"

\* A derived form is never the learner's first meeting with a root that has a
\* Qal, nor a prefixed word the first with one whose bare form is a word of the
\* corpus, whichever verse a word is taken from and whatever is forgotten
\* meanwhile; words that a placement took for granted apart, however spelled.
Granted == UNION {Twins(s) : s \in UNION Frequent}
MetInOrder ==
  \A s \in (Seen(srs) \cap Hebrew) \ Granted :
    /\ srs[Bare(s)] # "none"
    /\ Root[s] # NoRoot /\ s \notin AllNames /\ Tier[s] >= VerbTier /\ FamilyOf(s) \cap Qal # {} =>
         FamilyOf(s) \cap Qal \cap Seen(srs) # {}

\* A learner who comes back and, from some time on, forgets nothing, comes to
\* know the letters that grammar waits for, to have the rules that the known
\* words pay for, and to know every Hebrew word but those behind a rule that stays
\* locked or in no verse without Aramaic, and those that hang on such a word; a
\* name only if a verse that holds it has no such word.
Openers(s) ==
  {Bare(s)} \cup {t \in FamilyOf(s) \cap Qal : Root[s] # NoRoot /\ Tier[s] >= VerbTier /\ FamilyBase(t)}
Behind(s) ==
  \E t \in {s} \cup UNION {Openers(o) : o \in Openers(s)} :
    ~(RulesOf[t] \subseteq unlocked) \/ \A v \in Studied : t \notin Words[v]
Excused(s) ==
  IF s \in AllNames THEN \A v \in Studied : s \in Words[v] => \E t \in Words[v] : Behind(t)
  ELSE Behind(s)
Taught ==
  /\ GrammarGating => AllLettersKnown(Here)
  /\ Cardinality(unlocked) >= PacedRules(Here)
  /\ \A s \in Hebrew : s \in Done(srs) \/ Excused(s)
Forgetting == ~(Known(srs) \subseteq Known(srs') /\ Known(letters) \subseteq Known(letters'))
EverythingTaught == <>[][~Forgetting]_allVars => <>[]Taught

\* The tutor chooses as Readability leaves it open.
ChoosesAsReadabilityAllows == Spec
=============================================================================
