----------------------- MODULE SnapshotRounds_proofs -----------------------
(***************************************************************************)
(* Lemmas about SnapshotRounds, for any set S of snapshots.                *)
(***************************************************************************)
EXTENDS SnapshotRounds, TLAPS

\* The states of a round, spelled out.
LEMMA RoundShapes ==
  ASSUME NEW S, RoundsTypeOK(S), NEW d \in Devices
  PROVE  /\ Waiting(d) => /\ round[d].try \in 1..Addresses
                          /\ round[d].body \in S
                          /\ round[d] = [phase |-> "waiting", try |-> round[d].try,
                                         body |-> round[d].body]
         /\ Answered(d) => /\ round[d].body \in S
                           /\ round[d].answer \in S
         /\ round[d] = NoRound \/ Waiting(d) \/ Answered(d)
         /\ ~(Waiting(d) /\ Answered(d))
         /\ round[d] = NoRound => ~Waiting(d) /\ ~Answered(d)
BY DEF RoundsTypeOK, Waiting, Answered, NoRound

\* Moving on to the next address changes nothing else about the round.
LEMMA NextTry ==
  ASSUME NEW S, RoundsTypeOK(S), NEW d \in Devices, Waiting(d), round[d].try < Addresses
  PROVE  /\ [round[d] EXCEPT !.try = @ + 1]
              \in [phase : {"waiting"}, try : 1..Addresses, body : S]
         /\ [round[d] EXCEPT !.try = @ + 1].body = round[d].body
<1>1. round[d] \in [phase : {"waiting"}, try : 1..Addresses, body : S]
  BY DEF RoundsTypeOK, Waiting, NoRound
<1>2. round[d].try \in 1..Addresses
  BY <1>1
<1>3. round[d].try + 1 \in 1..Addresses
  BY <1>2, RoundsAssumption
<1> QED BY <1>1, <1>3

\* Requests left after a connection was dropped are those of before, some
\* of them abandoned, and the one that was sent again.
LEMMA DropConnectionType ==
  ASSUME NEW S, RoundsTypeOK(S), NEW d \in Devices, NEW resent,
         resent \subseteq [dev : Devices, body : S, live : BOOLEAN],
         DropConnection(d, resent)
  PROVE  wire' \subseteq [dev : Devices, body : S, live : BOOLEAN]
<1>1. PICK kept \in SUBSET LiveOf(d) :
        wire' = (wire \ LiveOf(d)) \cup {[q EXCEPT !.live = FALSE] : q \in kept}
                  \cup resent
  BY DEF DropConnection
<1>2. \A q \in wire : [q EXCEPT !.live = FALSE]
                        \in [dev : Devices, body : S, live : BOOLEAN]
  BY DEF RoundsTypeOK
<1> QED BY <1>1, <1>2 DEF RoundsTypeOK, LiveOf

\* Of what a dropped connection leaves, only the resent request is live anew.
LEMMA KeptAreStale ==
  ASSUME NEW S, RoundsTypeOK(S), NEW d \in Devices, NEW resent, DropConnection(d, resent),
         NEW q \in wire', q.live
  PROVE  q \in wire \ LiveOf(d) \/ q \in resent
<1>1. PICK kept \in SUBSET LiveOf(d) :
        wire' = (wire \ LiveOf(d)) \cup {[p EXCEPT !.live = FALSE] : p \in kept}
                  \cup resent
  BY DEF DropConnection
<1>2. \A p \in wire : [p EXCEPT !.live = FALSE].live = FALSE
  BY DEF RoundsTypeOK
<1> QED BY <1>1, <1>2 DEF LiveOf

\* The request on an open connection carries the body its device waits for.
Connected ==
  \A q \in wire : q.live => /\ Waiting(q.dev)
                            /\ q.body = round[q.dev].body

\* What a step does to the rounds.
RoundStep(S) ==
  \/ \E d \in Devices :
       \/ \E body \in S : Post(d, body)
       \/ TryNextAddress(d)
       \/ GiveUp(d)
       \/ Conclude(d)
  \/ \E q \in wire, merged \in S : Answer(q, merged)
  \/ UNCHANGED roundVars

\* Rounds and requests keep their types.
LEMMA RoundStepType ==
  ASSUME NEW S, RoundsTypeOK(S), Connected, RoundStep(S)
  PROVE  RoundsTypeOK(S)'
<1> USE RoundsAssumption
<1>1. ASSUME NEW d \in Devices, NEW body \in S, Post(d, body) PROVE RoundsTypeOK(S)'
  <2>1. [phase |-> "waiting", try |-> 1, body |-> body]
          \in [phase : {"waiting"}, try : 1..Addresses, body : S]
    OBVIOUS
  <2>2. Request(d, body, TRUE) \in [dev : Devices, body : S, live : BOOLEAN]
    BY DEF Request
  <2> QED BY <1>1, <2>1, <2>2 DEF RoundsTypeOK, Post
<1>2. ASSUME NEW d \in Devices, TryNextAddress(d) PROVE RoundsTypeOK(S)'
  <2>1. Request(d, round[d].body, TRUE) \in [dev : Devices, body : S, live : BOOLEAN]
    BY <1>2, RoundShapes DEF TryNextAddress, Request
  <2>2. [round[d] EXCEPT !.try = @ + 1]
          \in [phase : {"waiting"}, try : 1..Addresses, body : S]
    BY <1>2, NextTry DEF TryNextAddress
  <2>3. wire' \subseteq [dev : Devices, body : S, live : BOOLEAN]
    <3>1. /\ DropConnection(d, {Request(d, round[d].body, TRUE)})
          /\ {Request(d, round[d].body, TRUE)}
               \subseteq [dev : Devices, body : S, live : BOOLEAN]
      BY <1>2, <2>1 DEF TryNextAddress
    <3> QED BY <3>1, DropConnectionType
  <2> QED BY <1>2, <2>2, <2>3 DEF TryNextAddress, RoundsTypeOK
<1>3. ASSUME NEW d \in Devices, GiveUp(d) PROVE RoundsTypeOK(S)'
  <2>1. wire' \subseteq [dev : Devices, body : S, live : BOOLEAN]
    BY <1>3, DropConnectionType DEF GiveUp
  <2> QED BY <1>3, <2>1 DEF GiveUp, RoundsTypeOK
<1>4. ASSUME NEW d \in Devices, Conclude(d) PROVE RoundsTypeOK(S)'
  BY <1>4 DEF Conclude, RoundsTypeOK
<1>5. ASSUME NEW q \in wire, NEW merged \in S, Answer(q, merged) PROVE RoundsTypeOK(S)'
  <2>1. q.dev \in Devices
    BY DEF RoundsTypeOK
  <2>2. CASE round' = round
    BY <1>5, <2>2 DEF Answer, RoundsTypeOK
  <2>3. CASE /\ q.live
             /\ round' = [round EXCEPT ![q.dev] = [phase  |-> "answered",
                            body |-> round[q.dev].body, answer |-> merged]]
    <3>1. round[q.dev].body \in S
      BY <2>1, <2>3, RoundShapes DEF Connected
    <3>2. [phase |-> "answered", body |-> round[q.dev].body, answer |-> merged]
            \in [phase : {"answered"}, body : S, answer : S]
      BY <3>1
    <3> QED BY <1>5, <2>1, <2>3, <3>2 DEF Answer, RoundsTypeOK
  <2> QED BY <1>5, <2>2, <2>3 DEF Answer
<1>6. CASE UNCHANGED roundVars
  BY <1>6 DEF roundVars, RoundsTypeOK
<1> QED BY <1>1, <1>2, <1>3, <1>4, <1>5, <1>6 DEF RoundStep

\* Open connections keep knowing their device.
LEMMA RoundStepConnected ==
  ASSUME NEW S, RoundsTypeOK(S), Connected, RoundStep(S)
  PROVE  Connected'
<1> USE DEF Connected
<1> SUFFICES ASSUME NEW q \in wire', q.live
             PROVE  Waiting(q.dev)' /\ q.body = round'[q.dev].body
  OBVIOUS
<1>0. ASSUME NEW d \in Devices, NEW x, round' = [round EXCEPT ![d] = x],
             q \in wire, q.dev # d
      PROVE  Waiting(q.dev)' /\ q.body = round'[q.dev].body
  <2>1. Waiting(q.dev) /\ q.body = round[q.dev].body /\ q.dev \in Devices
    BY <1>0 DEF RoundsTypeOK
  <2>2. round'[q.dev] = round[q.dev]
    BY <1>0, <2>1 DEF RoundsTypeOK
  <2> QED BY <2>1, <2>2 DEF Waiting
<1>1. ASSUME NEW d \in Devices, NEW body \in S, Post(d, body)
      PROVE  Waiting(q.dev)' /\ q.body = round'[q.dev].body
  <2>1. CASE q = Request(d, body, TRUE)
    BY <1>1, <2>1 DEF Post, Request, Waiting, RoundsTypeOK
  <2>2. CASE q \in wire
    <3>1. q.dev # d
      BY <1>1, <2>2 DEF Post, NoRound, Waiting, RoundsTypeOK
    <3> QED BY <1>0, <1>1, <2>2, <3>1 DEF Post
  <2> QED BY <1>1, <2>1, <2>2 DEF Post
<1>2. ASSUME NEW d \in Devices, TryNextAddress(d)
      PROVE  Waiting(q.dev)' /\ q.body = round'[q.dev].body
  <2>1. CASE q \in wire \ LiveOf(d)
    BY <1>0, <1>2, <2>1 DEF LiveOf, TryNextAddress
  <2>2. CASE q = Request(d, round[d].body, TRUE)
    <3>1. round'[d] = [round[d] EXCEPT !.try = @ + 1]
      BY <1>2 DEF TryNextAddress, RoundsTypeOK
    <3>2. round'[d].phase = "waiting" /\ round'[d].body = round[d].body
      BY <1>2, <3>1, NextTry DEF TryNextAddress
    <3> QED BY <2>2, <3>2 DEF Request, Waiting
  <2>3. DropConnection(d, {Request(d, round[d].body, TRUE)})
    BY <1>2 DEF TryNextAddress
  <2>4. q \in wire \ LiveOf(d) \/ q \in {Request(d, round[d].body, TRUE)}
    BY <2>3, KeptAreStale
  <2> QED BY <2>1, <2>2, <2>4
<1>3. ASSUME NEW d \in Devices, GiveUp(d)
      PROVE  Waiting(q.dev)' /\ q.body = round'[q.dev].body
  <2>1. q \in wire \ LiveOf(d)
    BY <1>3, KeptAreStale DEF GiveUp
  <2> QED BY <1>0, <1>3, <2>1 DEF LiveOf, GiveUp
<1>4. ASSUME NEW d \in Devices, Conclude(d)
      PROVE  Waiting(q.dev)' /\ q.body = round'[q.dev].body
  <2>1. q.dev # d
    BY <1>4 DEF Conclude, Waiting, Answered
  <2> QED BY <1>0, <1>4, <2>1 DEF Conclude
<1>5. ASSUME NEW p \in wire, NEW merged \in S, Answer(p, merged)
      PROVE  Waiting(q.dev)' /\ q.body = round'[q.dev].body
  <2>1. q \in wire /\ q # p
    BY <1>5 DEF Answer
  <2>2. ~p.live \/ q.dev # p.dev
    <3> SUFFICES ASSUME p.live, q.dev = p.dev PROVE FALSE
      OBVIOUS
    <3>1. q.body = p.body
      BY <2>1
    <3>2. /\ q = [dev |-> q.dev, body |-> q.body, live |-> TRUE]
          /\ p = [dev |-> p.dev, body |-> p.body, live |-> TRUE]
      BY <2>1 DEF RoundsTypeOK
    <3> QED BY <2>1, <3>1, <3>2
  <2>3. p.dev \in Devices
    BY DEF RoundsTypeOK
  <2>4. CASE UNCHANGED round
    BY <2>1, <2>4 DEF Waiting
  <2> QED BY <1>0, <1>5, <2>1, <2>2, <2>3, <2>4 DEF Answer
<1>6. CASE UNCHANGED roundVars
  BY <1>6 DEF roundVars, Waiting
<1> QED BY <1>1, <1>2, <1>3, <1>4, <1>5, <1>6 DEF RoundStep

-----------------------------------------------------------------------------
(* Where snapshots come from *)

\* A snapshot under way is the body of a request, or the body or the answer
\* of a round.
LEMMA InFlight ==
  ASSUME NEW s
  PROVE  s \in SnapshotsInFlight <=>
           \/ \E q \in wire : s = q.body
           \/ \E d \in Devices : (Waiting(d) \/ Answered(d)) /\ s = round[d].body
           \/ \E d \in Devices : Answered(d) /\ s = round[d].answer
BY DEF SnapshotsInFlight

\* Every snapshot under way has the type of the rounds.
LEMMA InFlightType ==
  ASSUME NEW S, RoundsTypeOK(S)
  PROVE  SnapshotsInFlight \subseteq S
<1>1. \A q \in wire : q.body \in S
  BY DEF RoundsTypeOK
<1> QED BY <1>1, RoundShapes DEF SnapshotsInFlight

\* What a dropped connection leaves carries bodies that were under way.
LEMMA KeptBodies ==
  ASSUME NEW S, RoundsTypeOK(S), NEW d \in Devices, NEW resent, DropConnection(d, resent),
         \A p \in resent : Waiting(d) /\ p.body = round[d].body,
         NEW q \in wire'
  PROVE  q.body \in SnapshotsInFlight
<1>1. PICK kept \in SUBSET LiveOf(d) :
        wire' = (wire \ LiveOf(d)) \cup {[p EXCEPT !.live = FALSE] : p \in kept}
                  \cup resent
  BY DEF DropConnection
<1>2. \A p \in wire : [p EXCEPT !.live = FALSE].body = p.body
  BY DEF RoundsTypeOK
<1>3. CASE q \in wire
  BY <1>3, InFlight
<1>4. CASE \E p \in kept : q = [p EXCEPT !.live = FALSE]
  BY <1>2, <1>4, InFlight DEF LiveOf
<1>5. CASE q \in resent
  BY <1>5, InFlight
<1> QED BY <1>1, <1>3, <1>4, <1>5

\* Only posting and answering bring new snapshots under way.
LEMMA RoundStepSnapshots ==
  ASSUME NEW S, NEW New, RoundsTypeOK(S), Connected, RoundStep(New)
  PROVE  SnapshotsInFlight' \subseteq SnapshotsInFlight \cup New
<1> SUFFICES ASSUME NEW s \in SnapshotsInFlight'
             PROVE  s \in SnapshotsInFlight \cup New
  OBVIOUS
<1>0. \/ \E q \in wire' : s = q.body
      \/ \E d \in Devices : (Waiting(d)' \/ Answered(d)') /\ s = round'[d].body
      \/ \E d \in Devices : Answered(d)' /\ s = round'[d].answer
  BY DEF SnapshotsInFlight
<1>1. ASSUME NEW d \in Devices, NEW body \in New, Post(d, body)
      PROVE  s \in SnapshotsInFlight \cup New
  <2>1. CASE \E q \in wire' : s = q.body
    BY <1>1, <2>1, InFlight DEF Post, Request
  <2>2. ASSUME NEW e \in Devices, Waiting(e)' \/ Answered(e)',
               s = round'[e].body \/ (Answered(e)' /\ s = round'[e].answer)
        PROVE  s \in SnapshotsInFlight \cup New
    <3>1. CASE e = d
      BY <1>1, <2>2, <3>1 DEF Post, Waiting, Answered, RoundsTypeOK
    <3>2. CASE e # d
      <4>1. round'[e] = round[e]
        BY <1>1, <3>2 DEF Post, RoundsTypeOK
      <4> QED BY <2>2, <4>1, InFlight DEF Waiting, Answered
    <3> QED BY <3>1, <3>2
  <2> QED BY <1>0, <2>1, <2>2
<1>2. ASSUME NEW q \in wire, NEW merged \in New, Answer(q, merged)
      PROVE  s \in SnapshotsInFlight \cup New
  <2>1. CASE \E p \in wire' : s = p.body
    BY <1>2, <2>1, InFlight DEF Answer
  <2>2. ASSUME NEW e \in Devices, Waiting(e)' \/ Answered(e)',
               s = round'[e].body \/ (Answered(e)' /\ s = round'[e].answer)
        PROVE  s \in SnapshotsInFlight \cup New
    <3>1. CASE round'[e] = round[e]
      BY <2>2, <3>1, InFlight DEF Waiting, Answered
    <3>2. CASE round'[e] # round[e]
      <4>1. /\ q.live /\ q.dev = e
            /\ round'[e] = [phase |-> "answered", body |-> round[e].body,
                            answer |-> merged]
        BY <1>2, <3>2 DEF Answer, RoundsTypeOK
      <4>2. Waiting(e)
        BY <4>1 DEF Connected
      <4> QED BY <2>2, <4>1, <4>2, InFlight
    <3> QED BY <3>1, <3>2
  <2> QED BY <1>0, <2>1, <2>2
<1>3. ASSUME NEW d \in Devices, Conclude(d) PROVE s \in SnapshotsInFlight
  <2>1. \A e \in Devices : Waiting(e)' \/ Answered(e)' => round'[e] = round[e]
    BY <1>3 DEF Conclude, RoundsTypeOK, Waiting, Answered, NoRound
  <2>2. wire' = wire
    BY <1>3 DEF Conclude
  <2> QED BY <1>0, <2>1, <2>2, InFlight DEF Waiting, Answered
<1>4. ASSUME NEW d \in Devices, TryNextAddress(d) PROVE s \in SnapshotsInFlight
  <2>1. CASE \E q \in wire' : s = q.body
    <3> DEFINE resent == {Request(d, round[d].body, TRUE)}
    <3>1. DropConnection(d, resent) /\ \A p \in resent : Waiting(d) /\ p.body = round[d].body
      BY <1>4 DEF TryNextAddress, Request
    <3> HIDE DEF resent
    <3>2. \A q \in wire' : q.body \in SnapshotsInFlight
      BY <3>1, KeptBodies
    <3> QED BY <2>1, <3>2
  <2>2. /\ round'[d] = [round[d] EXCEPT !.try = @ + 1]
        /\ \A e \in Devices \ {d} : round'[e] = round[e]
    BY <1>4 DEF TryNextAddress, RoundsTypeOK
  <2>3. round'[d].phase = "waiting" /\ round'[d].body = round[d].body
    BY <1>4, <2>2, NextTry DEF TryNextAddress
  <2> QED BY <1>0, <1>4, <2>1, <2>2, <2>3, InFlight DEF TryNextAddress, Waiting, Answered
<1>5. ASSUME NEW d \in Devices, GiveUp(d) PROVE s \in SnapshotsInFlight
  <2>1. CASE \E q \in wire' : s = q.body
    <3>1. DropConnection(d, {}) /\ \A p \in {} : Waiting(d) /\ p.body = round[d].body
      BY <1>5 DEF GiveUp
    <3> QED BY <2>1, <3>1, KeptBodies
  <2>2. \A e \in Devices : Waiting(e)' \/ Answered(e)' => round'[e] = round[e]
    BY <1>5 DEF GiveUp, RoundsTypeOK, Waiting, Answered, NoRound
  <2> QED BY <1>0, <2>1, <2>2, InFlight DEF Waiting, Answered
<1>6. CASE UNCHANGED roundVars
  BY <1>0, <1>6, InFlight DEF roundVars, Waiting, Answered
<1> QED BY <1>1, <1>2, <1>3, <1>4, <1>5, <1>6 DEF RoundStep

-----------------------------------------------------------------------------
(* The snapshots of one device *)

\* What device d has posted, in this round or before, and the server may read.
BodiesOf(d) ==
  {q.body : q \in {p \in wire : p.dev = d}}
    \cup {round[e].body : e \in {f \in {d} : Waiting(f) \/ Answered(f)}}

\* The same, spelled out.
LEMMA BodiesAre ==
  ASSUME NEW d \in Devices, NEW b
  PROVE  b \in BodiesOf(d) <=>
           \/ \E q \in wire : q.dev = d /\ b = q.body
           \/ (Waiting(d) \/ Answered(d)) /\ b = round[d].body
BY DEF BodiesOf

\* What a dropped connection leaves was posted before.
LEMMA DropKeepsBodies ==
  ASSUME NEW S, RoundsTypeOK(S), NEW e \in Devices, NEW resent, DropConnection(e, resent),
         \A p \in resent : Waiting(e) /\ p.dev = e /\ p.body = round[e].body,
         NEW q \in wire', q.dev \in Devices
  PROVE  q.body \in BodiesOf(q.dev)
<1>1. PICK kept \in SUBSET LiveOf(e) :
        wire' = (wire \ LiveOf(e)) \cup {[p EXCEPT !.live = FALSE] : p \in kept}
                  \cup resent
  BY DEF DropConnection
<1>2. \A p \in wire : /\ [p EXCEPT !.live = FALSE].body = p.body
                       /\ [p EXCEPT !.live = FALSE].dev = p.dev
  BY DEF RoundsTypeOK
<1>3. CASE q \in wire
  BY <1>3, BodiesAre
<1>4. CASE \E p \in kept : q = [p EXCEPT !.live = FALSE]
  BY <1>2, <1>4, BodiesAre DEF LiveOf
<1>5. CASE q \in resent
  BY <1>5, BodiesAre
<1> QED BY <1>1, <1>3, <1>4, <1>5

\* A step of the rounds that posts nothing new.
NoPost ==
  \/ \E d \in Devices : TryNextAddress(d) \/ GiveUp(d) \/ Conclude(d)
  \/ \E q \in wire : \E merged : Answer(q, merged)
  \/ UNCHANGED roundVars

\* Only a post adds to what a device has posted.
LEMMA NoPostKeepsBodies ==
  ASSUME NEW S, RoundsTypeOK(S), Connected, NoPost, NEW d \in Devices
  PROVE  BodiesOf(d)' \subseteq BodiesOf(d)
<1> SUFFICES ASSUME NEW b \in BodiesOf(d)' PROVE b \in BodiesOf(d)
  OBVIOUS
<1>0. \/ \E q \in wire' : q.dev = d /\ b = q.body
      \/ (Waiting(d)' \/ Answered(d)') /\ b = round'[d].body
  BY DEF BodiesOf
<1>1. ASSUME NEW e \in Devices, TryNextAddress(e) PROVE b \in BodiesOf(d)
  <2>1. CASE \E q \in wire' : q.dev = d /\ b = q.body
    <3> DEFINE resent == {Request(e, round[e].body, TRUE)}
    <3>1. /\ DropConnection(e, resent)
          /\ \A p \in resent : Waiting(e) /\ p.dev = e /\ p.body = round[e].body
      BY <1>1 DEF TryNextAddress, Request
    <3> HIDE DEF resent
    <3> QED BY <2>1, <3>1, DropKeepsBodies
  <2>2. CASE (Waiting(d)' \/ Answered(d)') /\ b = round'[d].body
    <3>1. /\ round'[e] = [round[e] EXCEPT !.try = @ + 1]
          /\ \A f \in Devices \ {e} : round'[f] = round[f]
      BY <1>1 DEF TryNextAddress, RoundsTypeOK
    <3>2. round'[e].body = round[e].body /\ Waiting(e)
      BY <1>1, <3>1, NextTry DEF TryNextAddress
    <3> QED BY <2>2, <3>1, <3>2, BodiesAre DEF Waiting, Answered
  <2> QED BY <1>0, <2>1, <2>2
<1>2. ASSUME NEW e \in Devices, GiveUp(e) PROVE b \in BodiesOf(d)
  <2>1. CASE \E q \in wire' : q.dev = d /\ b = q.body
    <3>1. /\ DropConnection(e, {})
          /\ \A p \in {} : Waiting(e) /\ p.dev = e /\ p.body = round[e].body
      BY <1>2 DEF GiveUp
    <3> QED BY <2>1, <3>1, DropKeepsBodies
  <2>2. Waiting(d)' \/ Answered(d)' => round'[d] = round[d]
    BY <1>2 DEF GiveUp, RoundsTypeOK, Waiting, Answered, NoRound
  <2> QED BY <1>0, <2>1, <2>2, BodiesAre DEF Waiting, Answered
<1>3. ASSUME NEW e \in Devices, Conclude(e) PROVE b \in BodiesOf(d)
  <2>1. Waiting(d)' \/ Answered(d)' => round'[d] = round[d]
    BY <1>3 DEF Conclude, RoundsTypeOK, Waiting, Answered, NoRound
  <2>2. wire' = wire
    BY <1>3 DEF Conclude
  <2> QED BY <1>0, <2>1, <2>2, BodiesAre DEF Waiting, Answered
<1>4. ASSUME NEW p \in wire, NEW merged, Answer(p, merged) PROVE b \in BodiesOf(d)
  <2>1. wire' \subseteq wire
    BY <1>4 DEF Answer
  <2>2. CASE round'[d] = round[d]
    BY <1>0, <2>1, <2>2, BodiesAre DEF Waiting, Answered
  <2>3. CASE round'[d] # round[d]
    <3>1. /\ p.live /\ p.dev = d
          /\ round'[d] = [phase |-> "answered", body |-> round[d].body, answer |-> merged]
      BY <1>4, <2>3 DEF Answer, RoundsTypeOK
    <3>2. Waiting(d) /\ round'[d].body = round[d].body
      BY <3>1 DEF Connected
    <3> QED BY <1>0, <2>1, <3>2, BodiesAre
  <2> QED BY <2>2, <2>3
<1>5. CASE UNCHANGED roundVars
  BY <1>0, <1>5, BodiesAre DEF roundVars, Waiting, Answered
<1> QED BY <1>1, <1>2, <1>3, <1>4, <1>5 DEF NoPost

\* A post adds its body, to its own device's.
LEMMA PostAddsBody ==
  ASSUME NEW S, RoundsTypeOK(S), NEW e \in Devices, NEW body, Post(e, body),
         NEW d \in Devices, NEW b \in BodiesOf(d)'
  PROVE  b \in BodiesOf(d) \/ (d = e /\ b = body)
<1>0. \/ \E q \in wire' : q.dev = d /\ b = q.body
      \/ (Waiting(d)' \/ Answered(d)') /\ b = round'[d].body
  BY DEF BodiesOf
<1>1. CASE d = e
  BY <1>0, <1>1, BodiesAre DEF Post, Request, Waiting, Answered, RoundsTypeOK
<1>2. CASE d # e
  <2>1. round'[d] = round[d]
    BY <1>2 DEF Post, RoundsTypeOK
  <2> QED BY <1>0, <1>2, <2>1, BodiesAre DEF Post, Request, Waiting, Answered
<1> QED BY <1>1, <1>2

\* Only an answer of the server puts an answer into a round.
LEMMA NoAnswerKeepsAnswers ==
  ASSUME NEW S, RoundsTypeOK(S), NEW d \in Devices, Answered(d)',
         \/ \E e \in Devices :
              (\E body : Post(e, body)) \/ TryNextAddress(e) \/ GiveUp(e) \/ Conclude(e)
         \/ UNCHANGED roundVars
  PROVE  Answered(d) /\ round'[d] = round[d]
<1>1. ASSUME NEW e \in Devices, NEW body, Post(e, body)
      PROVE  Answered(d) /\ round'[d] = round[d]
  BY <1>1 DEF Post, Answered, RoundsTypeOK
<1>2. ASSUME NEW e \in Devices, TryNextAddress(e)
      PROVE  Answered(d) /\ round'[d] = round[d]
  <2>1. e = d => round'[d] = [round[d] EXCEPT !.try = @ + 1]
    BY <1>2 DEF TryNextAddress, RoundsTypeOK
  <2>2. e # d
    BY <1>2, <2>1, NextTry DEF TryNextAddress, Answered
  <2> QED BY <1>2, <2>2 DEF TryNextAddress, Answered, RoundsTypeOK
<1>3. ASSUME NEW e \in Devices, GiveUp(e) \/ Conclude(e)
      PROVE  Answered(d) /\ round'[d] = round[d]
  BY <1>3 DEF GiveUp, Conclude, Answered, NoRound, RoundsTypeOK
<1>4. CASE UNCHANGED roundVars
  BY <1>4 DEF roundVars, Answered
<1> QED BY <1>1, <1>2, <1>3, <1>4
=============================================================================
