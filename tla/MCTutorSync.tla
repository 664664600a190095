---------------------------- MODULE MCTutorSync ----------------------------
(* Small instances of TutorSync. *)
EXTENDS TutorSync, TLC

DeviceSymmetry == Permutations(Devices)
=============================================================================
