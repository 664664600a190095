----------------------------- MODULE MemorySync -----------------------------
(***************************************************************************)
(* Memorisation on several devices that synchronise through the LAN        *)
(* server: verses are recited and reshaped offline, and merge_memory of    *)
(* crates/haqor-core/src/memorise.rs brings the verse states, the layouts, *)
(* the passage runs and the answer log together.  The passages themselves  *)
(* and the settings are documents of DocumentSync; here every passage was  *)
(* added, and had reached every device, before.  Which card a device shows *)
(* is Memorise's concern: here any verse may be recited that can be.       *)
(*                                                                         *)
(* A state is [rows, log].  rows: <<table, id>> -> [rev, reps, val, is] or *)
(* NoRow: updated_epoch, a verse's repetitions (0 in other tables), the    *)
(* number of the write, and what the row says.  log: an entry -> how many  *)
(* rows of memory_review read so.  `history` is a ghost as in DocumentSync,*)
(* `given` counts the answers given, and `paid` the completion bonuses     *)
(* that each device paid.                                                  *)
(***************************************************************************)
EXTENDS MemorySteps, SnapshotRounds, FiniteSetsExt

CONSTANTS Verses,        \* the verses in play, a set of numbers
          Ids,           \* the passages
          Covers,        \* the verses of each passage
          NoPassage,     \* an answer that completed no passage
          Grades,        \* the grades in play
          MaxLines,      \* bound: lines in a verse
          FirstStates,   \* what all devices and the server hold at first
          MaxEpoch,      \* bound: wall clocks read 1..MaxEpoch
          MaxWrites      \* bound: answers and reshapings, over all devices

Keys == ({"verse", "layout"} \X Verses) \cup ({"run"} \X Ids)
Epochs == 1..MaxEpoch
Writes == 0..MaxWrites           \* 0: what was written before
Shapes == [lines : 0..MaxLines, opens : BOOLEAN]
RunContents == [run : {TRUE}]
ContentsOf(k) == CASE k[1] = "verse"  -> VerseRows(MaxLines)
                   [] k[1] = "layout" -> Shapes
                   [] k[1] = "run"    -> RunContents
Contents == VerseRows(MaxLines) \cup Shapes \cup RunContents
Rows == [rev : Nat, reps : Nat, val : Writes, is : Contents]
Entries == [epoch : Epochs, verse : Verses, grade : Grades \cup {"none"},
            done : Ids \cup {NoPassage}]
States == [rows : [Keys -> Rows \cup {NoRow}], log : [Entries -> Nat]]

ASSUME MemorySyncAssumption ==
  /\ Verses \subseteq Nat /\ IsFiniteSet(Verses) /\ IsFiniteSet(Ids)
  /\ Covers \in [Ids -> (SUBSET Verses) \ {{}}]
  /\ NoPassage \notin Ids
  /\ NoRow \notin Rows
  /\ Grades \subseteq GradeKinds
  /\ MaxLines \in 1..84
  /\ MaxEpoch \in Nat \ {0} /\ MaxWrites \in Nat
  /\ IsFiniteSet(Devices)
  /\ FirstStates \subseteq States
  /\ \A s \in FirstStates, k \in Keys :
       s.rows[k] # NoRow => s.rows[k].val = 0 /\ s.rows[k].is \in ContentsOf(k)

VARIABLES db,          \* the memory tables of each device's progress.db
          server,      \* and of the server's canonical one
          writes,      \* answers and reshapings so far
          history,     \* ghost: the writes each write stands upon
          given, paid  \* ghosts

vars == <<db, server, round, wire, writes, history, given, paid>>
ghosts == <<history, given, paid>>

-----------------------------------------------------------------------------
(* merge_memory *)

\* Mutant: of two states of one second the local one stays.
OutranksLater(in, loc) == in.rev > loc.rev

\* The WHERE clauses: a newer row, or of a verse the one recited more often.
Outranks(in, loc) == in.rev > loc.rev \/ (in.rev = loc.rev /\ in.reps > loc.reps)

MergeMemoryRow(loc, in) ==
  IF in = NoRow THEN loc
  ELSE IF loc = NoRow \/ Outranks(in, loc) THEN in
  ELSE loc

\* Mutant: the snapshot's rows are added to the local ones.
MergeEntriesTwice(loc, in) == loc + in

\* Mutant: an equal row here stands for all of the snapshot's.
MergeEntriesIfNone(loc, in) == IF loc = 0 THEN in ELSE loc

\* Rows are matched with their ordinal among equal rows: only the copies that
\* the log does not hold yet are inserted.
MergeEntries(loc, in) == IF in > loc THEN in ELSE loc

MergeMemory(local, incoming) ==
  [rows |-> [k \in Keys |-> MergeMemoryRow(local.rows[k], incoming.rows[k])],
   log  |-> [e \in Entries |-> MergeEntries(local.log[e], incoming.log[e])]]

-----------------------------------------------------------------------------
(* What a device knows *)

Verse(s, v) == IF s.rows[<<"verse", v>>] = NoRow THEN NewRow ELSE s.rows[<<"verse", v>>].is
Reps(s, v) == IF s.rows[<<"verse", v>>] = NoRow THEN 0 ELSE s.rows[<<"verse", v>>].reps
Shape(s, v) ==
  IF s.rows[<<"layout", v>>] = NoRow THEN [lines |-> 0, opens |-> FALSE]
                                     ELSE s.rows[<<"layout", v>>].is
LineCount(shape) == IF shape.lines = 0 THEN 1 ELSE shape.lines

Opens(s, id, v) == v = Min(Covers[id]) \/ Shape(s, v).opens
SectionStart(s, id, v) == Max({w \in Covers[id] : w <= v /\ Opens(s, id, w)})
Section(s, id, v) ==
  {w \in Covers[id] : SectionStart(s, id, w) = SectionStart(s, id, v)}
Steps(s, id, v) == VerseSteps(LineCount(Shape(s, v)), Opens(s, id, v))
StepOf(s, id, v) == ResolveStep(Verse(s, v).stage, Steps(s, id, v), LineCount(Shape(s, v)))

Known(s, id) == {v \in Covers[id] : Verse(s, v).learnt}
CompletedIds(s) == {id \in Ids : Known(s, id) = Covers[id]}
EverCompleted(s) == {id \in Ids : \E e \in Entries : e.done = id /\ s.log[e] > 0}

Init ==
  /\ \E s \in FirstStates :
       /\ db = [d \in Devices |-> s] /\ server = s
       /\ given = s.log
       /\ paid \in [Ids -> [Devices -> {0, 1}]]
       /\ \A id \in Ids :
            Cardinality({d \in Devices : paid[id][d] = 1}) =
              IF id \in EverCompleted(s) THEN 1 ELSE 0
  /\ writes = 0
  /\ history = [k \in Keys |-> [w \in Writes |-> IF w = 0 THEN {0} ELSE {}]]
  /\ RoundsInit

-----------------------------------------------------------------------------
(* The learner at a device *)

\* Mutant: a write is dated by the clock alone.
StampOfClock(old, now) == IF old = NoRow \/ now > old.rev THEN now ELSE old.rev

\* updated_epoch = MAX(old + 1, now).
Stamp(old, now) == IF old = NoRow \/ now > old.rev THEN now ELSE old.rev + 1

\* Every statement of one call: `new` maps the keys written to their content.
Rewritten(s, new, now) ==
  [k \in Keys |->
     IF k \in DOMAIN new
     THEN [rev |-> Stamp(s.rows[k], now), reps |-> new[k].reps,
           val |-> writes + 1, is |-> new[k].is]
     ELSE s.rows[k]]
HistoryOf(k, row) == IF row = NoRow THEN {} ELSE history[k][row.val]

Write(d, new, entries, now) ==
  /\ writes < MaxWrites
  /\ writes' = writes + 1
  /\ db' = [db EXCEPT ![d] =
       [rows |-> Rewritten(db[d], new, now),
        log  |-> [e \in Entries |-> db[d].log[e] + IF e \in entries THEN 1 ELSE 0]]]
  /\ history' = [k \in Keys |->
       IF k \in DOMAIN new
       THEN [history[k] EXCEPT ![writes + 1] = HistoryOf(k, db[d].rows[k]) \cup {writes + 1}]
       ELSE history[k]]
  /\ given' = [e \in Entries |-> given[e] + IF e \in entries THEN 1 ELSE 0]
  /\ UNCHANGED <<server, round, wire>>

\* The new content of the verse v of s: its srs, and whether it was repeated.
Content(s, v, srs, repeated) ==
  [reps |-> Reps(s, v) + IF repeated THEN 1 ELSE 0, is |-> srs]
RunContent == [reps |-> 0, is |-> [run |-> TRUE]]
Only(k, content) == [x \in {k} |-> content]
Join(f, g) == [k \in DOMAIN f \cup DOMAIN g |-> IF k \in DOMAIN f THEN f[k] ELSE g[k]]

\* The learnt verses of vs recited: early ones keep their spacing, a forgotten
\* one goes back to learning.
Reviews(s, vs, g, early) ==
  [k \in {"verse"} \X vs |->
     Content(s, k[2], Reviewed(Verse(s, k[2]), g[k[2]]),
             g[k[2]] # "again" /\ k[2] \notin early)]
ReviewEntries(vs, g, now) ==
  {[epoch |-> now, verse |-> v, grade |-> g[v], done |-> NoPassage] : v \in vs}

\* submit_memory_recital for a learning card of v in passage id; a chain also
\* recites the learnt verses vs of the section before it.
LearntBefore(s, id, v) ==
  {w \in Known(s, id) : w < v /\ w \in Section(s, id, v)}
Target(s, id, v, grade) ==
  LET step == StepOf(s, id, v)
      kind == Steps(s, id, v)[step + 1].kind
  IN  Moved(Verse(s, v), NextStep(kind, grade, step), Steps(s, id, v))
\* The state as these statements leave it, whatever their date.
After(s, new) == [s EXCEPT !.rows = Rewritten(s, new, 1)]

\* Mutant: the log is not asked.
NewlyCompleteAgain(s, after) == CompletedIds(after) \ CompletedIds(s)

\* Complete only now, and never before as far as the log knows.
NewlyComplete(s, after) == CompletedIds(after) \ (CompletedIds(s) \cup EverCompleted(s))

\* The log row of the target carries one of the completions; a marker row each
\* stands for the others.
TargetEntries(v, grade, new, now) ==
  LET first == IF new = {} THEN NoPassage ELSE CHOOSE id \in new : TRUE
  IN  {[epoch |-> now, verse |-> v, grade |-> grade, done |-> first]}
        \cup {[epoch |-> now, verse |-> v, grade |-> "none", done |-> id] :
                id \in new \ {first}}

SubmitLearning(d, id, v, g, early, now) ==
  LET s       == db[d]
      target  == Target(s, id, v, g[v])
      chained == IF Steps(s, id, v)[StepOf(s, id, v) + 1].kind = "chain"
                 THEN LearntBefore(s, id, v) ELSE {}
      verses  == Join(Only(<<"verse", v>>, Content(s, v, target, target.learnt)),
                      Reviews(s, chained, g, early))
      after   == After(s, verses)
      joined  == /\ target.learnt
                 /\ Section(s, id, v) \subseteq Known(after, id)
                 /\ \E w \in Known(after, id) : w < SectionStart(s, id, v)
      new     == IF target.learnt THEN NewlyComplete(s, after) ELSE {}
  IN  /\ v \in Covers[id]
      /\ ~Verse(s, v).learnt
      /\ s.rows[<<"verse", v>>] # NoRow \/ Shape(s, v).lines # 0
      /\ Write(d, IF joined THEN Join(verses, Only(<<"run", id>>, RunContent)) ELSE verses,
               TargetEntries(v, g[v], new, now) \cup ReviewEntries(chained, g, now), now)
      /\ paid' = [i \in Ids |-> IF i \in new THEN [paid[i] EXCEPT ![d] = @ + 1] ELSE paid[i]]

\* For a review or a run: a run dates the passage's next one as well.
SubmitReview(d, id, vs, g, early, isRun, now) ==
  LET verses == Reviews(db[d], vs, g, early)
  IN  /\ vs # {} /\ vs \subseteq Known(db[d], id)
      /\ Write(d, IF isRun THEN Join(verses, Only(<<"run", id>>, RunContent)) ELSE verses,
               ReviewEntries(vs, g, now), now)
      /\ UNCHANGED paid

\* restart_memory_steps, as the content of the verse row it changes, if any.
RestartedVerse(s, v, restart) ==
  IF restart /\ s.rows[<<"verse", v>>] # NoRow /\ Restarted(Verse(s, v)) # Verse(s, v)
  THEN Only(<<"verse", v>>, Content(s, v, Restarted(Verse(s, v)), FALSE))
  ELSE <<>>
Reshape(d, v, shape, restart, now) ==
  /\ shape # Shape(db[d], v)
  /\ Write(d, Join(Only(<<"layout", v>>, [reps |-> 0, is |-> shape]),
                   RestartedVerse(db[d], v, restart)), {}, now)
  /\ UNCHANGED paid

SetLineStarts(d, v, lines, now) ==
  LET old == Shape(db[d], v)
      new == [old EXCEPT !.lines = lines]
  IN  Reshape(d, v, new, LineCount(new) # LineCount(old), now)

SetSectionStart(d, v, opens, now) ==
  LET old == Shape(db[d], v)
  IN  Reshape(d, v, [old EXCEPT !.opens = opens], opens # old.opens, now)

Practise(d) ==
  \E now \in Epochs :
    \/ \E g \in [Verses -> Grades], id \in Ids : \E early \in SUBSET Known(db[d], id) :
         \/ \E v \in Covers[id] : SubmitLearning(d, id, v, g, early, now)
         \/ \E vs \in SUBSET Known(db[d], id), isRun \in BOOLEAN :
              SubmitReview(d, id, vs, g, early, isRun, now)
    \/ \E v \in Verses :
         \/ \E lines \in 0..MaxLines : SetLineStarts(d, v, lines, now)
         \/ \E opens \in BOOLEAN : SetSectionStart(d, v, opens, now)

-----------------------------------------------------------------------------
(* Sync rounds, as in DocumentSync *)

StartRound(d) == Post(d, db[d]) /\ UNCHANGED <<db, server, writes, ghosts>>

HandlePost(q) ==
  /\ server' = MergeMemory(server, q.body)
  /\ Answer(q, server')
  /\ UNCHANGED <<db, writes, ghosts>>

MergeAnswer(d) ==
  /\ Answered(d)
  /\ db' = [db EXCEPT ![d] = MergeMemory(@, round[d].answer)]
  /\ Conclude(d)
  /\ UNCHANGED <<server, writes, ghosts>>

Disconnect(d) ==
  (TryNextAddress(d) \/ GiveUp(d)) /\ UNCHANGED <<db, server, writes, ghosts>>

Next ==
  \/ \E d \in Devices : Practise(d) \/ StartRound(d) \/ MergeAnswer(d) \/ Disconnect(d)
  \/ \E q \in wire : HandlePost(q)

Spec == Init /\ [][Next]_vars

\* The app keeps starting rounds, and the network does not lose every one.
HandlePostOf(d) == \E q \in LiveOf(d) : HandlePost(q) /\ round'[d].phase = "answered"
Fairness ==
  \A d \in Devices :
    /\ WF_vars(StartRound(d))
    /\ WF_vars(Disconnect(d))
    /\ SF_vars(HandlePostOf(d))
    /\ SF_vars(MergeAnswer(d))
FairSpec == Spec /\ Fairness

-----------------------------------------------------------------------------
(* Properties *)

Copies == {db[d] : d \in Devices} \cup {server} \cup SnapshotsInFlight

\* The rows of key k that exist anywhere.
RowsOf(k) == {s.rows[k] : s \in Copies} \ {NoRow}

\* The type invariant.
TypeOK ==
  /\ db \in [Devices -> States]
  /\ server \in States
  /\ writes \in Writes
  /\ history \in [Keys -> [Writes -> SUBSET Writes]]
  /\ given \in [Entries -> Nat]
  /\ paid \in [Ids -> [Devices -> Nat]]
  /\ RoundsTypeOK(States)
  /\ \A s \in Copies, k \in Keys : s.rows[k] # NoRow => s.rows[k].is \in ContentsOf(k)

\* A recital is never forgotten for an earlier state of the verse: of two states
\* anywhere, the one that was reached from the other has the later revision,
\* however the clocks disagree, also where a reshaping restarted the verse.
RecitalsFollowHistory ==
  \A k \in Keys : \A x, y \in RowsOf(k) :
    /\ x.val = y.val => x = y
    /\ x.val \in history[k][y.val] => x = y \/ x.rev < y.rev

\* No answer counts twice: however often a snapshot is sent, answered late or
\* comes back from another device, no log holds more rows than answers given,
\* and a merge leaves no answer of either side out.
AnswersCountOnce == \A s \in Copies, e \in Entries : s.log[e] <= given[e]

MergesKeepAnswers ==
  [][/\ \A e \in Entries : server'.log[e] >= server.log[e]
     /\ \A q \in wire \ wire' : HandlePost(q) =>
          \A e \in Entries : server'.log[e] >= q.body.log[e]
     /\ \A d \in Devices :
          /\ \A e \in Entries : db'[d].log[e] >= db[d].log[e]
          /\ round'[d] = NoRound /\ MergeAnswer(d) =>
               \A e \in Entries : db'[d].log[e] >= round[d].answer.log[e]]_vars

\* A device pays the bonus of a passage's completion once, and not at all when
\* it has heard of it from another; only devices apart from one another may
\* each pay it.
PaidOncePerDevice ==
  \A id \in Ids, d \in Devices :
    /\ paid[id][d] <= 1
    /\ paid[id][d] = 1 => id \in EverCompleted(db[d])

\* Once the learner stops, all devices and the server come to hold the same
\* answers, each of those that were ever given among them, and the same revision
\* of everything else.  They need not hold an answer as often as it was given:
\* two devices that give the same one within a second share its row.
Rank(row) == IF row = NoRow THEN <<-1, 0>> ELSE <<row.rev, row.reps>>
SameMemory(a, b) ==
  a.log = b.log /\ \A k \in Keys : Rank(a.rows[k]) = Rank(b.rows[k])
MemoryAgrees == \A d \in Devices : SameMemory(db[d], server)
AnswersHeld == \A e \in Entries : given[e] > 0 => server.log[e] > 0
MemoryConverges == <>[](MemoryAgrees /\ AnswersHeld)

\* The steps by which they get there are never undone: a round during which
\* nothing is recited leaves the device with just what the server answered, and
\* once all agree nothing but a recital or reshaping makes them differ -- no
\* request read late or a second time, no answer lost or merged after another.
RoundsSettle ==
  [][/\ \A d \in Devices :
          MergeAnswer(d) /\ db[d] = round[d].body => SameMemory(db'[d], round[d].answer)
     /\ MemoryAgrees /\ UNCHANGED writes => MemoryAgrees']_vars
=============================================================================
