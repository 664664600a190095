--------------------------- MODULE CausalRegister --------------------------
(***************************************************************************)
(* What synchronisation promises the learner, said without revisions,      *)
(* snapshots or messages: replicas hold versions of keyed documents; a     *)
(* write replaces the version a replica holds by a new one; a replica may  *)
(* at any time take over versions written elsewhere, but never one that    *)
(* the version it holds was written on top of, and never nothing.          *)
(***************************************************************************)
EXTENDS Naturals

CONSTANTS Replicas, Keys, MaxWrites

VARIABLES held,      \* the version each replica holds of each key, 0 if none
          writes,    \* versions written so far
          history    \* for each version, itself and the ones it stands upon

vars == <<held, writes, history>>

Versions == 1..MaxWrites
HistoryOf(k, v) == IF v = 0 THEN {} ELSE history[k][v]
Written(k) == {v \in Versions : v \in history[k][v]}

TypeOK ==
  /\ held \in [Replicas -> [Keys -> {0} \cup Versions]]
  /\ writes \in 0..MaxWrites
  /\ history \in [Keys -> [Versions -> SUBSET Versions]]

Init ==
  /\ held = [r \in Replicas |-> [k \in Keys |-> 0]]
  /\ writes = 0
  /\ history = [k \in Keys |-> [v \in Versions |-> {}]]

\* A replica writes a new version of the keys in ks, on top of those it holds.
Write(r, ks) ==
  /\ writes < MaxWrites
  /\ writes' = writes + 1
  /\ held' = [held EXCEPT ![r] =
                [k \in Keys |-> IF k \in ks THEN writes + 1 ELSE held[r][k]]]
  /\ history' = [k \in Keys |->
       IF k \in ks
       THEN [history[k] EXCEPT ![writes + 1] = HistoryOf(k, held[r][k]) \cup {writes + 1}]
       ELSE history[k]]

\* A replica takes over, key by key, versions that exist.
MayAdopt(k, old, new) ==
  new = old \/ (new \in Written(k) /\ new \notin HistoryOf(k, old))

Adopt(r) ==
  /\ held' \in [Replicas -> [Keys -> {0} \cup Versions]]
  /\ \A q \in Replicas \ {r} : held'[q] = held[q]
  /\ \A k \in Keys : MayAdopt(k, held[r][k], held'[r][k])
  /\ UNCHANGED <<writes, history>>

Next == \E r \in Replicas : Adopt(r) \/ \E ks \in SUBSET Keys : Write(r, ks)

Spec == Init /\ [][Next]_vars
=============================================================================
