--------------------------- MODULE SnapshotRounds --------------------------
(***************************************************************************)
(* One sync round of a device: the exported snapshot is POSTed, the server *)
(* merges it and answers with its merged database, and the device merges   *)
(* the answer.  Requests travel through Remote::request of                 *)
(* crates/haqor-sync-server/src/client.rs, which tries the server's        *)
(* addresses in order: an attempt that got no HTTP response is repeated,   *)
(* same body, on the next address, although the server may have merged the *)
(* first copy already or may still come to it.  A snapshot is opaque here. *)
(***************************************************************************)
EXTENDS Naturals, FiniteSets

CONSTANTS Devices,     \* the learner's devices
          Addresses,   \* how many addresses each device tries per round
          MaxStale     \* bound: abandoned requests the server may still read

ASSUME RoundsAssumption == Addresses \in Nat \ {0} /\ MaxStale \in Nat

VARIABLES round,       \* what each device's sync call is doing
          wire         \* requests the server has not handled yet

roundVars == <<round, wire>>

NoRound == [phase |-> "idle"]

Waiting(d) == round[d].phase = "waiting"
Answered(d) == round[d].phase = "answered"

\* The open connection's request carries live; an abandoned one does not.
Request(d, body, live) == [dev |-> d, body |-> body, live |-> live]
Stale == {q \in wire : ~q.live}
LiveOf(d) == {q \in wire : q.dev = d /\ q.live}

RoundsInit == round = [d \in Devices |-> NoRound] /\ wire = {}

RoundsTypeOK(Snapshots) ==
  /\ wire \subseteq [dev : Devices, body : Snapshots, live : BOOLEAN]
  /\ round \in [Devices -> {NoRound}
                  \cup [phase : {"waiting"}, try : 1..Addresses, body : Snapshots]
                  \cup [phase : {"answered"}, body : Snapshots, answer : Snapshots]]

\* Remote::request begins: the body goes to the first address.
Post(d, body) ==
  /\ round[d] = NoRound
  /\ round' = [round EXCEPT ![d] = [phase |-> "waiting", try |-> 1, body |-> body]]
  /\ wire' = wire \cup {Request(d, body, TRUE)}

\* The server handled q and answers on its connection.  The answer may be
\* lost; nobody reads the answer of a connection that was given up.
Answer(q, merged) ==
  /\ q \in wire
  /\ wire' = wire \ {q}
  /\ \/ UNCHANGED round
     \/ /\ q.live
        /\ round' = [round EXCEPT ![q.dev] = [phase  |-> "answered",
                                              body   |-> round[q.dev].body,
                                              answer |-> merged]]

\* No HTTP response arrived: connect refused, reset, or the 30 s read timeout.
\* The request died with its connection, or the server still has it to read.
DropConnection(d, resent) ==
  \E kept \in SUBSET LiveOf(d) :
    /\ kept # {} => Cardinality(Stale) < MaxStale
    /\ wire' = (wire \ LiveOf(d))
                 \cup {[q EXCEPT !.live = FALSE] : q \in kept}
                 \cup resent

\* Mutant: the loop runs one past the last address.
TryNextAddressPastTheLast(d) ==
  /\ Waiting(d)
  /\ round[d].try <= Addresses
  /\ round' = [round EXCEPT ![d].try = @ + 1]
  /\ DropConnection(d, {Request(d, round[d].body, TRUE)})

\* The loop over the endpoints: the next address, if there is one.
TryNextAddress(d) ==
  /\ Waiting(d)
  /\ round[d].try < Addresses
  /\ round' = [round EXCEPT ![d].try = @ + 1]
  /\ DropConnection(d, {Request(d, round[d].body, TRUE)})

\* Every address failed (RequestError.unreachable), a server answered with an
\* error, or the app was closed with the round under way, even with the answer
\* in hand; progress.db itself is on disk.
GiveUp(d) ==
  /\ round[d] # NoRound
  /\ round' = [round EXCEPT ![d] = NoRound]
  /\ DropConnection(d, {})

\* The answer was used; the round is over.
Conclude(d) ==
  /\ Answered(d)
  /\ round' = [round EXCEPT ![d] = NoRound]
  /\ UNCHANGED wire

\* Every snapshot that exists outside the databases themselves.
SnapshotsInFlight ==
  {q.body : q \in wire}
    \cup {round[d].body : d \in {e \in Devices : Waiting(e) \/ Answered(e)}}
    \cup {round[d].answer : d \in {e \in Devices : Answered(e)}}
=============================================================================
