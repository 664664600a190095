# haqor-core in TLA+

Models, model-checking runs and machine-checked proofs for the part of haqor-core
that is hard to test: what happens to a learner's progress when it is changed
offline on several devices, by clocks that disagree, and synchronised through a
LAN server over a network that loses, repeats and delays; and how the tutor and
the memorisation drill move a learner on, call by call, with caches, gates, and an
app that can be killed between two statements. All paths below are relative to
`src/crates/`.

## The system

| Component | State it keeps | Operations | Hard behaviour |
|---|---|---|---|
| Learner's documents (`haqor-core/src/tutor.rs`, `memorise.rs`) | `study_state`, `commentary_notes`, `issue_reports`, `gloss_overrides`, `lexicon_entry_overrides`, `memory_passage`, `memory_settings` of `progress.db`, each row with an `updated_epoch`, some with a tombstone `deleted` | save, delete, optimise away | revisions from wall clocks that are skewed or set back |
| Tutor: grading (`tutor.rs`) | `glyph_srs`, `word_srs`, `form_srs`, `suffix_srs`, `reviews`, `concepts_seen`, `marks_seen`, `meta` | grade, place as known, explain once, reset | a reset is many statements; rows are dated by the clock |
| Tutor: readability cache (`tutor.rs`) | `surface_progress`, `verse_progress`, a stamp | ensure, rebuild, record a graduation | judged fresh by two counts; two tables; kills between statements |
| Tutor: next item (`tutor.rs`) | the pinned verse, `concepts_unlocked` | choose a review, a letter, a rule, a word, a drill or a verse to read | many gates that wait for one another; a call that starts over |
| Progress merge (`progress_sync.rs`) | none of its own: two attached schemas `progress` and `sync` | merge a snapshot in one transaction | ties, tombstones, resets, convergence |
| Sync client (`haqor-sync-server/src/client.rs`) | the request under way | try the addresses in order | an unanswered POST is repeated although it may have been merged |
| Sync server (`haqor-sync-server/src/lib.rs`) | one canonical `progress.db` per learner, tokens, a TLS identity | POST (merge and answer), GET | requests whose sender has given up are still merged |
| Memorisation (`memorise.rs`) | passages, verse steps and schedules, layout, runs, review log, settings | add, shape, recite, merge | several statements per recital; a stage is a number in a script that reshaping changes; layout and steps merged apart |
| Administrator (`haqor-admin/src/{lib,issue_tui}.rs`) | a downloaded copy of `progress.db` | edit and resolve reports, clear corrections, post back | acts on a copy the phones have moved past |
| Runtime lexicon entries (`bible.rs`) | a map in memory | reload | staleness against its table |
| Overlay editor (`haqor-admin`, `lexicon_overlay.rs`) | one JSON file | load, save | a thread per request, whole-file saves |
| Text, lexicon, grammar, morphology, database generation, command line | none, or read-only data | lookups, batch pipelines | none of interest to a model checker |

How they interact: the app calls the tutor, memorisation and document operations on
its own `progress.db`. A sync round exports that file (`VACUUM INTO`), POSTs it with
`Remote::request`, the server merges it into the canonical file with
`merge_progress_files` and answers with the whole merged file, and the app merges the
answer with `merge_progress_snapshot`. The learner can go on working during the
round. The administrator uses the same route with a downloaded copy. The devices never
talk to one another: everything they exchange goes through the server's file and the
merge rules. A merge also brings cards that the readability cache has not seen, and
layouts under steps that were made on others.

What makes each part correct:

* documents: no edit disappears under something it was made on top of; nothing
  appears that nobody wrote; once edits stop, the replicas agree;
* grading: a reset reaches everyone and is not undone; work dated after it is kept; the
  later grading of a card counts;
* readability: the cache tells which words are known, or is found out and rebuilt;
* next item: forms are met in the promised order, every call ends, and a learner who
  comes back is taught everything;
* round: a repeated, late or lost request does no harm; the server acknowledges what it
  was sent;
* memorisation: a stage stands on steps that were passed; a verse is learnt only through all
  of them; answers and bonuses count once; who practises learns;
* administrator: a resolution is neither forgotten nor repeated, and an alarm is true.

## Modules

| Module | What it is |
|---|---|
| `ProgressMerge` | the merge rules of the revisioned documents: a row is `[rev, del, val]` |
| `TutorMerge` | the merge rules of the tutor's tables and the reset |
| `MemorySteps` | the pure part of memorisation: a verse's script of steps, the place in it, and what a recital or a restart makes of the verse's row |
| `SnapshotRounds` | one sync round of a device; `round` is what each device's call is doing, `wire` the requests the server has not handled. A snapshot is opaque |
| `DocumentSync` | composes `ProgressMerge` and `SnapshotRounds` with the saves of `tutor.rs` and `memorise.rs` |
| `TutorSync` | composes `TutorMerge` and `SnapshotRounds` with grading, seeding, explaining and reset |
| `MemorySync` | composes `MemorySteps` and `SnapshotRounds` with `merge_memory`, recitals and reshapings |
| `IssueReview` | composes `ProgressMerge` and `SnapshotRounds` with the administrator's copy and list |
| `CausalRegister` | the abstract promise of `DocumentSync`: versions, who stands upon whom, and no step backwards |
| `Memorise` | memorisation on one device: the choice of the card and what an answer does |
| `Readability` | the readability cache, with the choice of the next word or verse left open |
| `StudyItems` | extends `Readability` with letters, rules and the real choice; it implements `Readability` |
| `MCDocumentSync`, `MCTutorSync`, `MCMemorise`, `MCMemorySync`, `MCReadability`, `MCStudyItems`, `MCIssueReview` | small instances |
| `SnapshotRounds_proofs`, `DocumentSync_proofs`, `TutorSync_proofs`, `MemorySteps_proofs`, `MemorySync_proofs`, `Memorise_proofs`, `StudyItems_proofs`, `IssueReview_proofs` | the theorems |

### How the models correspond to the code

Devices and rounds (`DocumentSync`, `TutorSync`, `MemorySync`):

* `db[d]` is device d's `progress.db`, `server` the canonical file: a function from keys to
  rows in `DocumentSync`, a record of tables in the other two. A key without a row maps to
  `NoRow`/`NoCard`.
* `updated_epoch` is a number; the clock that stamps it is any value of `Epochs` at every
  save, so that skew, equal seconds and clocks set back are all there. `BumpedRevision` is the
  `MAX(excluded.updated_epoch, old + 1)` of every save of a document.
* The content of a row is the number of the write that made it (and, in `MemorySync`, what the
  row says). Distinct contents are the case that tells most; the code never compares contents.
* One action is one committed statement or transaction. `Write` is what all document saves
  share; `OptimizeTutorGlossOverrides` writes several rows in its transaction. `reset_tutor` has no
  transaction: `ResetTutor` is the run to the end and `KilledInReset` the app's end after any
  of its DELETEs.
* `Post`, `TryNextAddress`, `GiveUp` are the loop of `Remote::request`. When an attempt brings
  no answer, `DropConnection` decides whether the request died or stays on `wire` as a
  stale one that the server handles later, in any order. `Answer` is the server's reply, which
  may get lost. `Conclude` ends the round when the answer is merged. Closing the app, an
  error response, or running out of addresses are `GiveUp`.
* `history` is a ghost variable: for each write, itself and the writes its author's copy stood upon.
  `wiped`, `given` and `paid` are ghosts too. No action's guard reads them, except that
  `AddMemoryPassage` takes an id that no write has used, as a fresh random id is.

Memorisation (`MemorySteps`, `Memorise`):

* A verse's script is computed in closed form; `LoopStepsAgree` in `MCMemorise` compares it, up to 12
  lines, with the list as `verse_steps` builds it. `Relearn` is `RELEARN_STAGE`.
* A passage's id is its place in the listing, newest first; a new passage takes any free place.
* `ShowItem` puts the card of `next_memory_item` on the screen, `Answer` is
  `submit_memory_recital`, on a card that may be answered twice or have become old. `card`
  is what the screen shows; the stage and purpose it was cut for travel with it, as in the code.
* `KilledInAnswer` and `KilledInReshape` are the app's end between the statements of these calls.
* `DatesCome` lets any learnt verses and runs become due; lengths of intervals are left open.
* `earned` is a ghost: the steps passed since the verse was last given a new shape.

Tutor (`Readability`, `StudyItems`):

* A card is `"none"`, `"learning"` or `"known"` (an interval of a day or more). `cache` is the two
  tables and the stamp. `Ensured` is `ensure_readability_progress`, with the counts it compares.
* `Aramaic` surfaces have no row in `surface_meta`: they have no twins, are never introduced, and the
  verses that hold one are never targets (`Studied` are the others). The code counts a verse's unknown
  words in two ways, and so does the model: a rebuild LEFT JOINs `surface_meta` and counts Aramaic words
  as unknown (`Unknown`), the recount after a graduation joins it and leaves them out (`Unlearnt`).
* `Readability`'s `NextItems` lets a call show any word or verse that the code could;
  `SubmitReview` writes the card, records a graduation, and asks again. Kills fall between these.
* `StudyItems` makes the choice: batches, letters before words, paced rules (`PacedRules`),
  verbal families (`FamilyReady`), bare forms (`LexicalBaseReady`), names, the pin, drills, and the
  verse to read. A name is shown once and seeded as known (`Names`), unless it has a curated gloss and
  is drilled like any word (`Glossed`); `is_name` is true of both. `AllLettersKnown` counts base letters
  and vowel points against its two targets, as the code does. `Call` is `next_study_item`. A call that drops its target and
  starts over is two steps, `call = "again"` (or `"lapsed"`) between them, so that a recursion
  without end would be a behaviour and not a missing value.
* Which of several candidates frequency puts first, which cards are due, how often a card must
  be recalled, and whether letters are under their share of introductions are nondeterministic.

Administrator (`IssueReview`): `temporary` is the downloaded copy, `shown` the list, `action`
what the upload under way resolves. An upload is a round of `SnapshotRounds`; a phone's sync
is one step. `Finish` compares the answer with what was to be resolved: on a match the answer becomes the
list, on the alarm it becomes the copy only, and the list stays on the screen. `screen` is a ghost, how many
lists and alarms the administrator has been shown; `resolvedAt` remembers it for each resolution.

## Runs

| Run | Expect | Shows |
|---|---|---|
| `documents` | pass | types; `RevisionsFollowHistory`; `AnswersAcknowledge`; `DocumentSync` implements `CausalRegister`; `RoundsSettle`; `Converges` under fairness |
| `content_ties` | violation | equal revisions: the content does not converge |
| `tutor` | pass | types; `ErasedStaysErased`; `MergesKeepWork`; `RoundsSettle` |
| `tutor_convergence` | pass | `ProgressConverges` under fairness |
| `seeds_lost` | violation | seeded cards are lost at the first merge after a reset |
| `review_lost` | violation | a grading gives way to the state it was made on |
| `memorise` | pass | types; `StartedInOrder`; `StepsEarned`; `LearntThroughEveryStep`; `BonusOnce`; `NextCardCounts` |
| `memorise_learns` | pass | with calls cut short, `StartedInOrder` and, under fairness, `PracticeTeaches` |
| `memory_sync` | pass | types; `RecitalsFollowHistory`; `AnswersCountOnce`; `MergesKeepAnswers`; `PaidOncePerDevice`; `RoundsSettle`; `MemoryConverges` under fairness |
| `readability` | pass | types; `CountsFollowMarks`; `ExactUntilForgotten`; `LearntIsReadable` under fairness |
| `study_items` | pass | types; `MetInOrder`; `TargetingEnds`; `StudyItems` implements `Readability`; `EverythingTaught` under fairness |
| `issue_review` | pass | types; `WritesOutrankTheirPast`; `AlarmMeansReopened`; `RetryResolvesOnce` |

`MemoryConverges` says that the replicas come to agree and that every answer that was given is in every log;
how often it is there is not compared with how often it was given, which equal answers of two devices in one
second would refute (see the divergences). `RetryResolvesOnce` says that of two resolutions of a report from
one list, the later does not resolve what was reopened with knowledge of the first, unless an alarm came in
between. `CountsFollowMarks` is exact for verses without Aramaic and says for the others which two counts they
can have.

What the violations say is in `PROJECT.json` under `findings`, each with the comment or test
that states the property.

### Bounds

Two devices and a server are enough for every race between two writers and a reader; the proofs
take any number. Two epochs (`MaxEpoch`) give equal, earlier and later clocks. Two writes
(`MaxWrites`) give every pair of writes: concurrent, one on top of the other, edit and deletion.

* `documents` has one key of every table. It has one address and no stale requests, for liveness over
  seven tables is what the time allows; `issue_review` has the same merge and rounds with two addresses
  and a stale request, and the theorems about `DocumentSync` take any number of both.
* `tutor` has a glyph, a rule, a reset whole or cut short (`MaxResets`, `MaxKills` 1), one address and no
  request handled late, of which the theorems take any number. A reset cut short is its only reset then, so
  that a cut reset against another device's complete one is left to `ResetCorrect`; `tutor_convergence` a word. The devices
  are symmetric in `tutor`, which checks no liveness.
* `memorise` has two passages over two verses, the scope of all passages, two lines, three edits and one
  time that dates come, no kills: `StepsEarned` and `BonusOnce` do not survive an app killed between the
  statements (see the hazards), and are checked without. `memorise_learns` has one passage, one cut answer, one cut
  reshaping. An instance without an end of edits would not let practice finish.
* `memory_sync` starts from two states that all agree on: the last verse is to be recited with
  the first before it, or was forgotten after the passage was completed. So two recitals reach a
  completion, a second completion and a lapse, which from empty tables would take many. Its last
  verse carries a revision of a clock ahead of all others.
* `readability` has two spellings of a word, a name and an Aramaic word over two verses, one of which mixes
  the languages, and one of each fault: a lapse, a seeding, a merge, a reset, a kill.
* `study_items` has a Qal, a derived form of its root, a prefixed form and a name over three verses;
  a consonant and a vowel; two rules; one placement and one lapse. Every gate has something to
  hold back, and every word something that can free it. Merges, resets and kills are in `readability`.
  It has no Aramaic word and no name with a gloss, with either of which liveness takes too long; the
  theorems about `StudyItems` take any corpus.
* `issue_review` has one phone, two reports, two addresses, a stale request, four writes, two screens
  (`MaxScreens`, lists and alarms together), so that a list, an alarm and a second resolution fit.

Deadlock is checked in every run but the two of `Memorise`: a learner who deletes
all passages and has used up the edits has nothing left to do.

### Fairness

* Rounds (`DocumentSync`, `TutorSync`, `MemorySync`): an idle app at some time starts a round and
  an attempt without an answer is at some time dropped (weak fairness: the app syncs again and
  again, connect and read time out after 4 s and 30 s); of infinitely many requests of a device
  some is answered and of infinitely many answers some is merged (strong fairness: the network or the
  app's closing may spoil any one round, not all for ever). Nothing is assumed of the
  learner, of resets, nor of the server's reading stale requests. `MaxWrites` bounds the edits, so
  that "once the edits stop" is every behaviour.
* `Memorise`: the learner who practises keeps asking for the next card of each scope and does not
  leave every card unanswered (`Practice`). `PracticeTeaches` assumes besides that from some time on
  recitals go well; what goes before is arbitrary.
* `Readability`: the learner looks at the progress again and again (weak fairness of `TutorProgress`).
  `LearntIsReadable` speaks of the verses without Aramaic: the words of a mixed verse cannot all be learnt.
* `StudyItems`: the app goes on with a call it has begun (`Retarget`), the learner goes on once a card
  is known and comes back when nothing is due (`GoOn`, and not everything is due for ever), and a card
  that is asked again and again is at last known. `EverythingTaught` assumes besides that from some
  time on nothing is forgotten.

## Proofs

Checked by TLAPS for every value of the constants, from the assumptions named in the
modules (`NoRowAssumption`, `RoundsAssumption`, `DocumentAssumption`, `NoCardAssumption`,
`TutorAssumption`, `MemorySyncAssumption`, `MemoriseAssumption`, `ReadabilityAssumption`, `StudyAssumption`,
`ReviewAssumption`): bounds are naturals, `NoRow` is not a row, the server is not a device, the
corpus is finite, a glyph is not a surface and some glyph is a consonant, and what a constant function
maps what to. Every safety property that a passing run checks is stated by a theorem.

`SnapshotRounds_proofs` has what all systems with rounds need: each action of a round
preserves `RoundsTypeOK(S)` for any set S of snapshots, and `Connected`: a request whose
connection is open belongs to a device that is waiting and carries the body that device is
waiting with. Without `Connected` one cannot know that an answer is given to the snapshot
that was sent. It also follows what a device has posted (`BodiesOf`) and where its answer comes from,
step by step, for the theorems on agreement.

`DocumentSync_proofs`, with `IInv == TypeOK /\ Connected /\ HistoryBounded /\ RevisionsFollowHistory`:

* `TypeCorrect`, `HistoryCorrect`: `[]TypeOK`, `[]RevisionsFollowHistory`. The property ranges over all
  copies of all rows, under way or at rest, so that it is nearly inductive; `HistoryBounded` says
  that rows and histories mention only writes already made, so that a new write is in no earlier
  history. A merge makes no new row (it picks one of two), so that only `Write` is work:
  `BumpedRevision` exceeds the revision it stands on, and by the invariant all that one stood on.
* `AcknowledgementCorrect`: `[]AnswersAcknowledge`. `MergeRow` never returns a row of lower revision
  than the incoming one; an answer is made at the moment its request is merged.
* `Refinement`: `Spec => ImplementsCausalRegister`. Every merge is an `Adopt` of the abstract
  register: by `RevisionsFollowHistory`, a row that supersedes another cannot be one that the other
  stands upon.
* `AgreementCorrect`: `RoundsSettle`, the safety half of `Converges`. `Within` orders databases by
  what an upsert compares (`AtMost`, key by key); two databases have the same ranks exactly if each is
  within the other, edits and merges go up, and a merge is no higher than it must be (`MergeIsAbove`).
  The invariant `NothingAhead` says that whatever a device has posted and the server may still read
  is within the device's database, and an answer lies between the body it answers and the
  server's database. So at an agreement nothing under way can move anyone, whoever sends it again.

`TutorSync_proofs`:

* `TypeCorrect`: `[]TypeOK`, from `Bounded`: every state anywhere, on a device, on the server or under
  way, mentions only writes already made. `ResetCorrect` needs that strengthening too: a row with the
  number of a new write was in no database before, so no reset removed it.
* `ResetCorrect`: `[]ErasedStaysErased`, with `Bounded`, `Connected` and itself: the rows of a state
  that `MergeTutor` returns are dated at or after its reset stamp, whatever came in, and a grading or
  seeding makes a row that is in no `wiped`.
* `MergesCorrect`: `MergesKeepWork`, from `MergeKeeps`: the union of two surviving states keeps both.
* `AgreementCorrect`: `RoundsSettle`. The invariant `AnswersAreMerges` says that an answer is the merge of
  some state of the server with the body it answers (`Connected` again); by `MergeSettles` neither side of a
  merge has anything to add to its result, and by `MergeClears` nothing in it is from before its reset. This is
  less than the `RoundsSettle` of the documents: a reset cut short lets a device that agrees fall behind its own
  posted snapshot, and cards are dated without a bump, so that agreement here can end without new work;
  `ProgressConverges` says that it comes back.

`MemorySteps_proofs` has the lemmas on scripts (a stored place resolves to a step of the script, a
recital or restart leaves a row of the table). `MemorySync_proofs`:

* `TypeCorrect` from `TypeInv`: every state anywhere is a good one, with what each row says of the kind
  its table holds, and `Connected`.
* `AnswersCorrect`: a merge takes the larger count of each entry, and a recital adds to the log of its
  device what it adds to `given`. `MergesCorrect` and `PaidCorrect` rest on the same lemma: logs only
  grow, so a completion once heard of is never paid.
* `RecitalsCorrect`: `[]RecitalsFollowHistory`, with `IInv == TypeInv /\ HistoryBounded /\
  RecitalsFollowHistory`, along the argument of `HistoryCorrect`; several rows are written by one
  recital, each on top of its own predecessor.
* `AgreementCorrect`: `RoundsSettle`, along the argument of `DocumentSync`, with the counts of the log
  beside the rows in the order.

`Memorise_proofs` (for any verses, passages, scopes, shapes and cut calls, with `LeastExists` for `Min` and
`Max`, and what follows from it on sections, scripts and places):

* `TypeCorrect`, `NextCardCorrect`: the card of the moment resolves to a step of the script as it is now.
* `OrderCorrect`: `[]StartedInOrder`, from `OrderInv == LearntBeen /\ StartedInOrder /\ CardInOrder`: a learnt
  verse has been learnt before, and a card on the screen is that of a verse whose predecessors have been,
  however old it is. It holds whatever is cut short, since a verse that has been learnt stays so.
* `StepsCorrect`: `[](cutEdits = 0 => StepsEarned)`, and `GraduationCorrect`: `LearntThroughEveryStep` as long as
  `cutEdits = 0`. The invariant `EarnedInv` speaks of no passage: of the steps that all scripts of a verse share,
  those up to the stored stage were passed; from that follows what is behind the place that the stage
  resolves to in the script of each passage. The condition is the code's: a reshaping killed between its
  two statements leaves the stage in another script.
* `BonusCorrect`: `[](... /\ (kills = 0 => BonusOnce))`, from `BonusInv == FirstsOnce /\ (kills = 0 => PaidOnce)`. A
  verse's bonus is paid once whatever is killed, since the row of the log that pays it also says so; a
  passage's only if no answer was cut short between the rows of its log.

`StudyItems_proofs`, first of `Readability`: `TypeCorrect`, `CountsCorrect`, `CacheExact` from `IInv`, whose core
is `Sound(cache, srs, torn, Intact)`: the counts are those of the marks unless a record was torn (with or
without the Aramaic words, which is the same where there are none), and as long as nothing was forgotten or merged the marked surfaces are among those done. A subset with as many
elements as the finite whole is the whole: that is why comparing counts is enough, and only then.

Then of `StudyItems`:

* `ChoiceCorrect` (`StudySpec => Spec` of `Readability`) by a case for each kind of outcome of a call (a
  letter, a rule or a word introduced, a drill, a review, a dropped target), each being one of the lessons or
  reviews `Readability` leaves open, under `Readability`'s `IInv`, which tells that the cache's marks are
  surfaces. `CacheSound` follows: what is proved of the cache holds while the real choice is made.
  `StudyTypeCorrect` is the type invariant.
* `MetCorrect` and `TargetingCorrect`, from `StudyInv == IInv /\ StudyTyped /\ Sane(Now) /\ ~torn`. `Sane` has a half
  on what is stored (only words met in some spelling are marked, a consonant has been seen if a vowel
  has, every word that has a card may be met) and one on the screen (an asked vowel comes with its
  consonant, a verse is shown to be read only if all its words are met, a call that starts over has no
  target).
* `MetCorrect`: `TwinsAlike => (StudySpec => []MetInOrder)`. `TwinsAlike` says that the surfaces which share a
  vocabulary key have one bare form, root and tier, and are names together. The gates look at
  surfaces and the marks at keys; without `TwinsAlike` TLC finds `MetInOrder` violated (see the
  divergences), so it is a condition on the corpus and not a convenience. The words that a
  placement grants are excepted in `MetInOrder` itself: it asks nothing of the order.
* `TargetingCorrect`: `StudySpec => []TargetingEnds`, twins or not. Where no drill is due nothing is in
  learning, so that what was seen is known; the marks are then among the known words and as many,
  hence the same; a verse chosen for reading has a word not yet known; and of the words the gates leave
  open for it, one is ready or asks for a letter. It rests on there being no merges in `StudyItems`.

`IssueReview_proofs`: `TypeCorrect`, `ReviewHistoryCorrect`, and `AlarmCorrect` and `RetryCorrect` from
two more invariants: `UploadInv`, by which the upload under way holds what it was to resolve as tombstones
of the copy, and `ResolvedInv`, by which a report is resolved at most once at a screen, since it is not
active in the copy again before a list or an alarm comes. So two resolutions with the same screen are one
write, and one that stands under the reopened report is not newer than it.

Only model-checked:

* liveness under fairness (beyond the prover): `Converges`, `ProgressConverges`, `MemoryConverges`,
  `PracticeTeaches`, `LearntIsReadable`, `EverythingTaught`;
* the three violations;
* that scripts in closed form are those that `verse_steps` builds (`LoopStepsAgree`), an induction over data.

No RECURSIVE operator is used.

## Known divergences that no run shows

Met while modelling; each is also a hazard in `PROJECT.json`.

* `haqor-core/src/tutor.rs:623`. The comment at 628 says that roots without an attested Qal are
  unaffected by the family gate. `KNOWN_QAL_ROOTS` asks for a learnt Qal, so that of such a root only
  the simplest form ever opens. `EverythingTaught` is checked where every verbal root has a Qal.
* `tutor.rs:639`, `2887`, `4994`. A prefixed form waits for a card of the first spelling of its bare
  form. If a placement has seeded another spelling, that spelling's twins are done and never
  introduced, and the prefixed form stays locked. The instance of `study_items` has no twins.
* `tutor.rs:631`, `3212`. A verse is readable when its vocabulary keys are known, while the gates for Qal and
  bare form look at surfaces. Where a derived form shares its key with a plain word, the verse is shown
  once the plain word is known, and misreading the derived form there makes its card before its Qal.
  `MetCorrect` is stated for a corpus without such pairs (`TwinsAlike`).
* `tutor.rs:4302`. The comment at 3212 asks the gate of a target to be that of its words, "or targeting would spin".
  With a stale cache whose counts are equal (after a reset, a merge takes away a
  seeded name and brings another known word), a verse is chosen for a word that cannot be
  introduced, and `next_study_item` recurses. `TargetingEnds` is checked without merges.
* `tutor.rs:3147`. In a verse that mixes Hebrew and Aramaic (Genesis 31:47, Daniel 2:4) the recount after a
  graduation leaves out the Aramaic words, which the rebuild at 3098 counts. Its count may then be 0, and the
  path at 4019 shows it, although the comment at 3999 promises a verse whose every surface has graduated.
  `CountsFollowMarks` allows both counts for such a verse and no other.
* `memorise.rs:909`. The rows of the log are told apart by their place among equal rows, so that equal answers
  of two devices in one second become one row, and the answer of one of them is not counted.
* `haqor-admin/src/lib.rs:507`. When the answer shows a resolved report active again, it has replaced the copy
  before the alarm is raised, while the list and the marks in it stay (`issue_tui.rs:187`). Pressing `s` again
  resolves the reopened report, whose new text was never on the screen. `RetryResolvesOnce` leaves out
  resolutions with an alarm between them; without that exception TLC finds it violated.
* `tutor.rs:3999`. A verse is to be read only if its every surface has graduated; a word forgotten since
  is still marked, and the verse is shown. `ExactUntilForgotten` says how far the comparison goes.
* `memorise.rs:1966`. Where two live passages disagree on whether a shared verse opens a section, the card
  can be cut for one and judged by the other, and no answer counts. `NextCardCounts` is stated for
  verses on which they agree (`Alike`).
* Two smaller ones: a placement of vocabulary without the alphabet can leave the last letters to no
  word that asks for them, in a corpus with no other word; and a verse that a word finishes is
  offered for reading only by the path of every tenth review, as its pin goes at the graduation.

## Not modelled

* Runtime lexicon entries: a map that is replaced whole after every save and merge of the one
  connection that owns it.
* Overlay editor: a save replaces the file by what its request holds; two tabs lose edits, and
  nothing is promised to them.
* Learners' directories, tokens and the TLS identity: set up once at the start; what a crash leaves
  is the file system's affair.
* `clear_invalid_gloss_overrides_from_server`, the pull of corrections into the overlay and the local variants of
  the administrator's commands: the same download, edit and upload as `IssueReview`, with a corpus
  lookup in between.
* In the tutor: the form and suffix drills, reading marks, the cards that only explain the script, due
  dates, the order by frequency, the `intro.*` counters, `created_epoch` and `introduced_epoch` (a merge
  only moves the first back and keeps the second), migrations of old snapshots.
* In memorisation: wording, cues, experience points per grade, streaks, achievements, lengths of intervals.
* Text, lexicon, grammar, romanisation, morphology, database generation, command line: most of the
  repository's lines. Lookups, string rewriting and tables of gold forms, deterministic and without
  state; their tests compare them with the corpus, which is what decides them.

## What is left to do

1. `clear_invalid_gloss_overrides_from_server` beside `IssueReview`, with gloss corrections of phones.
2. `study_items` with twins and with a root without a Qal, against the comments quoted above; the form
   and suffix tracks.
3. Learners' directories with concurrent `ensure_user`.
